---- MODULE Spec2Model ----
(***************************************************************************)
(* s2coastalbot: product acquisition (sentinel2.download_tci_image) and    *)
(* the acquire/postprocess loop of main.s2coastalbot_main (Spec); the      *)
(* retrying download sentinel2.sentinelsat_retry_download (SpecRetry);     *)
(* postprocessing.get_window (SpecWindow),                                 *)
(* postprocessing.postprocess_tci_image (SpecPost),                        *)
(* cdse.odata_download_with_nodefilter (SpecCdse) and                      *)
(* geoutils.get_location_name and format_lon_lat (SpecGeo), each called on *)
(* its own while the variables of the other functions stay idle; two runs  *)
(* of download_tci_image on one ledger file (SpecRuns); the run under the  *)
(* assumption that every external call returns (SpecLive).                 *)
(*                                                                         *)
(* Python's None is the empty sequence and a present value x is <<x>>, so  *)
(* that optional values of any type compare without type clashes.          *)
(***************************************************************************)
EXTENDS Integers, Sequences, FiniteSets, TLC

VARIABLES
    pc,                     \* position in s2coastalbot_main / download_tci_image ("raised":
                            \* download_tci_image raised; "crashed": main raised later)
    cleaning,               \* config "misc"/"cleaning", as written in the file
    aoi_size,               \* number of tile features in aoi_file_downloading
    ledger_file,            \* downloaded_images.csv: None (absent) or <<rows>>
    folders,                \* product folders present under output_folder
    tci_files,              \* product folders that hold a *_TCI_10m.jp2 file
    clock,                  \* datetime.datetime.now()
    n_calls,                \* calls of download_tci_image made by this run
    downloaded_images,      \* the DataFrame read at the start of the call
    footprint,              \* shuffled list of tile points
    count,                  \* window counter of the search loop
    found_suitable_product, \* flag of the search loop
    todo,                   \* what the for loop has still to iterate
    product_row,            \* loop variable of the for loop: None or <<row>>
    raised,                 \* None, or <<exception leaving the function>>
    errors,                 \* messages given to logger.error, in order
    tci_file_path,          \* returned by download_tci_image: None or <<path>>
    date,                   \* returned by download_tci_image: None or <<date>>
    postprocessed_file_path,\* main's loop variable: None or <<path>>
    queries,                \* history: footprint_subset of each api.query of the call
    returned,               \* history: the answer of each api.query of the call
    snapshot,               \* history: downloaded_images as read at the start of the call
    ledger_before,          \* history: ledger_file at the start of the call
    probes,                 \* history: <<row, nodata>> of each metadata probe of the call
    full_downloads,         \* history: rows whose TCI download was attempted in the call
    appended,               \* history: titles appended to the ledger in this run
    project_path,           \* module global of main.py: None (undefined) or <<path>>
    posted_images_file,     \* posted_images.csv: None (absent) or <<rows>>
    text,                   \* main's local variable: None (unbound) or <<status text>>
    steps,                  \* history: posts, ledger writes and cleanings of main, in order
    \* sentinel2.sentinelsat_retry_download, called on its own
    retry_pc,               \* "idle", "called" or "returned"
    uuid,                   \* argument: the product to download
    nodefilter,             \* argument: the file pattern of the node filter
    transfer_error,         \* the exception api.download raises when it fails
    transfer_fails,         \* how many times api.download raises before it succeeds
    events,                 \* history: api.download, logger.error and sleep calls, in order
    product_info,           \* the value returned: None or <<product_info>>
    retry_raised,           \* None, or <<exception leaving the function>>
    \* postprocessing.get_window, called on its own
    window_pc,              \* "idle", "called" or "returned"
    window_center,          \* argument: None or <<row, col>>
    window_width,           \* argument
    window_height,          \* argument
    image_width,            \* argument
    image_height,           \* argument
    window,                 \* the value returned: None or <<row_start, row_stop, col_start, col_stop>>
    \* postprocessing.postprocess_tci_image, called on its own
    post_pc,                \* "idle", "called", "loop", "returned" or "raised"
    in_dataset,             \* the scene opened from input_file: None or <<scene>>
    intersection,           \* footprint.intersection(gdf["geometry"]): one geometry per line
    coastline_points,       \* the candidate centers, shuffled and capped
    tried,                  \* candidates the for loop has gone through
    reads,                  \* history: the window of each in_dataset.read
    output_dataset,         \* the file written at output_file: None or <<contents>>
    post_result,            \* the value returned: None or <<output_file, center_coords>>
    post_raised,            \* None, or <<exception leaving the function>>
    \* cdse.odata_download_with_nodefilter and cdse.search_nodes, called on their own
    cdse_pc,                \* "idle", "called", "for" or "returned"
    listings,               \* the OData service: node url -> the nodes its listing returns
    feature_id,             \* argument
    nodefilter_pattern,     \* argument: the glob pattern, as a sequence of pieces
    exclude,                \* argument
    nodes,                  \* what search_nodes returned
    listing_requests,       \* history: the url of each requests.get of search_nodes
    node_todo,              \* what the for loop over nodes has still to iterate
    session_gets,           \* history: <<url, status_code>> of each session.get
    opened,                 \* history: <<file name, bytes written>> of each open(..., "wb")
    cdse_errors,            \* messages given to logger.error, in order
    cdse_returned,          \* the value returned: None or <<feature_id>>
    \* geoutils.get_location_name and geoutils.format_lon_lat, called on their own
    geo_pc,                 \* "idle", "called", "while", "returned" or "formatted"
    input_coords,           \* argument: <<lon, lat>> in hundredths of a degree
    request_points,         \* the local list points of get_location_name
    request_count,          \* the local variable count of get_location_name
    radius,                 \* in tenths of a degree
    response,               \* "error" before the first request, then the last answer
    requested,              \* history: the point of each request, in order
    location_name,          \* the value returned: None or <<name>>
    formatted,              \* what format_lon_lat returned: None or <<text>>
    \* two runs of download_tci_image on one ledger file
    run_pc,                 \* per run: "idle", "start", "search", "accepted", "returned", "exited"
    run_images,             \* per run: its downloaded_images data frame
    run_title,              \* per run: the title it accepted, None or <<title>>
    shared_ledger,          \* downloaded_images.csv: None or <<rows>>
    run_clock,              \* datetime.now(), one tick per row written
    run_downloads,          \* history: [run, title] of each product downloaded
    run_writes              \* history: [run, read, before, after, row] of each to_csv

main_vars == <<pc, cleaning, aoi_size, ledger_file, folders, tci_files, clock, n_calls,
          downloaded_images, footprint, count, found_suitable_product, todo,
          product_row, raised, errors, tci_file_path, date,
          postprocessed_file_path, queries, returned, snapshot, ledger_before,
          probes, full_downloads, appended, project_path, posted_images_file, text,
          steps>>
retry_vars == <<retry_pc, uuid, nodefilter, transfer_error, transfer_fails, events,
               product_info, retry_raised>>
window_vars == <<window_pc, window_center, window_width, window_height, image_width,
                image_height, window>>
post_vars == <<post_pc, in_dataset, intersection, coastline_points, tried, reads,
              output_dataset, post_result, post_raised>>
cdse_vars == <<cdse_pc, listings, feature_id, nodefilter_pattern, exclude, nodes,
              listing_requests, node_todo, session_gets, opened, cdse_errors,
              cdse_returned>>
geo_vars == <<geo_pc, input_coords, request_points, request_count, radius, response, requested,
             location_name, formatted>>
runs_vars == <<run_pc, run_images, run_title, shared_ledger, run_clock, run_downloads,
              run_writes>>
other_vars == <<retry_vars, window_vars, post_vars, cdse_vars, geo_vars, runs_vars>>
vars == <<main_vars, retry_vars, window_vars, post_vars, cdse_vars, geo_vars, runs_vars>>

----------------------------------------------------------------------------
(* Bounds of the model. *)

MaxTiles == 101         \* largest AOI tile count explored
MaxLedger == 1          \* longest ledger present before the run
MaxDownloads == 3       \* calls of download_tci_image explored in one run
MaxFailures == 10       \* most consecutive failures of the underlying transfer
MaxImage == 4           \* largest image width and height given to get_window
MaxWindow == 5          \* largest window width and height given to get_window
CenterMargin == 1       \* how far outside the image a window center may lie
MaxVertices == 101      \* most vertices of the coastline inside a scene footprint

(* Program constants. *)

WindowSize == 50        \* tiles per catalog query
MaxTries == 9           \* range(9) of the retry loop
InitialSleep == 2       \* sleep_time = 2
ExitStatus == 128       \* sys.exit(128)
INPUT_MAX_SIZE == 10980 \* postprocessing.INPUT_MAX_SIZE
SUBSET_SIZE == 1000     \* postprocessing.SUBSET_SIZE
MaxCandidates == 100    \* coastline_points[:100]

----------------------------------------------------------------------------
(* Values. *)

None == <<>>
Some(x) == <<x>>
Get(o) == o[1]

Range(s) == {s[i] : i \in 1..Len(s)}
NoDup(s) == \A i, j \in 1..Len(s) : s[i] = s[j] => i = j
Min(a, b) == IF a < b THEN a ELSE b
Max(a, b) == IF a > b THEN a ELSE b

RECURSIVE Flatten(_)
Flatten(ss) == IF ss = <<>> THEN <<>> ELSE Head(ss) \o Flatten(Tail(ss))

RECURSIVE SelectSeq2(_, _)
(* The elements of s that satisfy keep, in order (keep is a set). *)
SelectSeq2(s, keep) ==
    IF s = <<>> THEN <<>>
    ELSE IF Head(s) \in keep THEN <<Head(s)>> \o SelectSeq2(Tail(s), keep)
    ELSE SelectSeq2(Tail(s), keep)

(* The products the catalog knows: rows of api.to_dataframe(api.query(...)). *)
Products ==
    { [title |-> "S2A_T30TWT", uuid |-> "uuid-1", filename |-> "S2A_T30TWT.SAFE", date |-> 901],
      [title |-> "S2B_T30TXT", uuid |-> "uuid-2", filename |-> "S2B_T30TXT.SAFE", date |-> 902] }

Titles == {p.title : p \in Products}

(* NODATA_PIXEL_PERCENTAGE values a metadata file may hold (percent). *)
NodataValues == {0, 1, 100}

(* Tile counts of the AOI file that are explored. *)
TileCounts == {0, WindowSize, WindowSize + 1, 2 * WindowSize, MaxTiles}

(* Values of the "cleaning" option in a configuration file. *)
CleaningValues == {"True", "False"}

DupFreeSeqs(S, n) ==
    {s \in UNION {[1..k -> S] : k \in 0..n} : NoDup(s)}

(* What one api.query may answer: any list of distinct products. *)
CatalogResults == DupFreeSeqs(Products, Cardinality(Products))

(* Ledgers that may exist before the run: None, or distinct titles. *)
InitLedgers ==
    {None} \cup
    {Some([i \in 1..Len(s) |-> [date |-> 0, product |-> s[i]]]) :
        s \in DupFreeSeqs(Titles, MaxLedger)}

(* posted_images.csv before the run: absent, or one row of an earlier run. *)
InitPostedImages == {None, Some(<< [date |-> 0, product |-> "S2A_T29TNG"] >>)}

----------------------------------------------------------------------------
(* Pure helpers of sentinel2.py. *)

(* Truth value of a Python str: config.get returns the option's text. *)
Truthy(str) == str # ""

(* config.getboolean of main.py. *)
GetBoolean(str) == str = "True"

(* Mutant of ReadLedger: the file is never read, the DataFrame starts empty. *)
ReadLedgerEmpty(file) == <<>>

(* pd.read_csv(downloaded_images_file), or the empty DataFrame. *)
ReadLedger(file) == IF file = None THEN <<>> ELSE Get(file)

(* downloaded_images["product"].to_list() *)
ProductColumn(df) == [i \in 1..Len(df) |-> df[i].product]

(* Mutant of IsNovel: the comprehension's condition is dropped. *)
IsNovelAlways(p, df) == TRUE

(* if not p["title"] in downloaded_images["product"].to_list() *)
IsNovel(p, df) == p.title \notin Range(ProductColumn(df))

(* The list comprehension the for loop iterates. *)
NovelRows(products_df, df) ==
    SelectSeq2(products_df, {p \in Range(products_df) : IsNovel(p, df)})

(* count + 1 < len(footprint) / 50 *)
LoopCondition(c, n) == (c + 1) * WindowSize < n

(* Mutant of WindowSlice: the slice's stop is one too far. *)
WindowSliceOverlap(fp, c) ==
    SubSeq(fp, Min(c * WindowSize, Len(fp)) + 1, Min((c + 1) * WindowSize + 1, Len(fp)))

(* footprint[count * 50 : (count + 1) * 50] *)
WindowSlice(fp, c) ==
    SubSeq(fp, Min(c * WindowSize, Len(fp)) + 1, Min((c + 1) * WindowSize, Len(fp)))

(* Mutant of Rejected: a tolerance instead of the equality with zero. *)
RejectedAboveTolerance(nodata) == nodata = None \/ Get(nodata) > 1

(* nodata_pixel_percentage != 0.0 or nodata_pixel_percentage is None *)
Rejected(nodata) == nodata # Some(0) \/ nodata = None

(* random.shuffle(footprint): the orders explored are the file's order *)
(* and its reverse.                                                    *)
Shuffles(n) ==
    { [i \in 1..n |-> i],
      [i \in 1..n |-> n + 1 - i] }

(* sentinelsat's exceptions that api.download raises when a transfer fails. *)
TransferErrors == {"ServerError", "InvalidChecksumError"}

(* The node filters download_tci_image passes: metadata probe, TCI image.   *)
NodeFilters == {"*MTD_MSIL2A.xml", "*_TCI_10m.jp2"}

(* What api.download returns when it succeeds.                             *)
ApiDownload(id, filter) == [id |-> id, nodes |-> filter]

(* One call made by sentinelsat_retry_download to a collaborator.          *)
Call(name, message, n, t) == [call |-> name, text |-> message, n |-> n, t |-> t]

RetryMsg == "Failed sentinelsat download after {} retries, waiting {} seconds"
BackOffMsg == "Backing off sentinelsat download after 10 failures"

GiveUpBeforeLastTry(retry_nb) == retry_nb >= MaxTries - 1

(* for retry_nb in range(9): the loop is over.                             *)
GiveUp(retry_nb) == retry_nb >= MaxTries

CaughtServerErrorOnly(error) == error = "ServerError"

(* except Exception as error: every exception class is caught.             *)
Caught(error) == error \in TransferErrors \cup {"Exception"}

NextSleepLinear(sleep_time) == sleep_time + InitialSleep

(* sleep_time *= 2                                                         *)
NextSleep(sleep_time) == sleep_time * 2

FailedAttemptOneLog(retry_nb, sleep_time, error) ==
    << Call("api.download", "", retry_nb, 0),
       Call("logger.error", RetryMsg, retry_nb, sleep_time),
       Call("sleep", "", retry_nb, sleep_time) >>

(* An iteration whose api.download raises: the except branch logs the      *)
(* retry message, then the error itself, and the loop sleeps.              *)
FailedAttempt(retry_nb, sleep_time, error) ==
    << Call("api.download", "", retry_nb, 0),
       Call("logger.error", RetryMsg, retry_nb, sleep_time),
       Call("logger.error", error, retry_nb, 0),
       Call("sleep", "", retry_nb, sleep_time) >>

SuccessfulAttemptSleeps(retry_nb, sleep_time) ==
    << Call("api.download", "", retry_nb, 0),
       Call("sleep", "", retry_nb, sleep_time) >>

(* An iteration whose api.download returns: error_str is None, the         *)
(* function returns product_info.                                          *)
SuccessfulAttempt(retry_nb, sleep_time) ==
    << Call("api.download", "", retry_nb, 0) >>

RECURSIVE RetryLoop(_, _, _, _)
(* The for loop of sentinelsat_retry_download from try retry_nb on, when  *)
(* the underlying api.download raises `error` `fails` more times before    *)
(* succeeding: whether a product_info is returned, and the calls made.     *)
RetryLoop(retry_nb, sleep_time, fails, error) ==
    IF GiveUp(retry_nb)
    THEN [ok |-> FALSE, raised |-> None,
          events |-> << Call("logger.error", BackOffMsg, 0, 0) >>]
    ELSE IF fails > 0 /\ ~Caught(error)
    THEN [ok |-> FALSE, raised |-> Some(error),
          events |-> << Call("api.download", "", retry_nb, 0) >>]
    ELSE IF fails > 0
    THEN LET rest == RetryLoop(retry_nb + 1, NextSleep(sleep_time), fails - 1, error)
         IN  [ok |-> rest.ok, raised |-> rest.raised,
              events |-> FailedAttempt(retry_nb, sleep_time, error) \o rest.events]
    ELSE [ok |-> TRUE, raised |-> None,
          events |-> SuccessfulAttempt(retry_nb, sleep_time)]

sentinelsat_retry_download(fails, error) == RetryLoop(0, InitialSleep, fails, error)

(* What a call may return (a product_info or None), over the failure counts *)
(* of the underlying transfer that are explored.                            *)
DownloadOutcomes ==
    {sentinelsat_retry_download(n, e).ok : n \in 0..MaxFailures, e \in TransferErrors}

(* int(n / 2): true division, then truncation towards zero.                *)
HalfOf(n) == IF n >= 0 THEN n \div 2 ELSE -((-n) \div 2)

ShiftUpStartOnly(axis) ==
    IF axis.start < 0 THEN [start |-> 0, stop |-> axis.stop] ELSE axis

(* if start < 0: stop += -start; start += -start                           *)
ShiftUp(axis) ==
    IF axis.start < 0
    THEN [start |-> axis.start + (-axis.start), stop |-> axis.stop + (-axis.start)]
    ELSE axis

ShiftDownStopOnly(axis, size) ==
    IF axis.stop > size THEN [start |-> axis.start, stop |-> size] ELSE axis

(* if stop > size: start -= stop - size; stop -= stop - size               *)
ShiftDown(axis, size) ==
    IF axis.stop > size
    THEN [start |-> axis.start - (axis.stop - size),
          stop |-> axis.stop - (axis.stop - size)]
    ELSE axis

(* One axis of get_window: the window around center, then the two shifts.  *)
WindowAxis(center, length, size) ==
    ShiftDown(ShiftUp([start |-> center - HalfOf(length),
                       stop |-> center + HalfOf(length)]), size)

get_window(center, width, height, img_width, img_height) ==
    LET rows == WindowAxis(center[1], height, img_height)
        cols == WindowAxis(center[2], width, img_width)
    IN  <<rows.start, rows.stop, cols.start, cols.stop>>

(* The calls of test_get_window.                                           *)
TestGetWindowCalls ==
    { [center |-> <<50, 200>>, width |-> 50, height |-> 10, img_width |-> 500, img_height |-> 100],
      [center |-> <<5, 200>>, width |-> 50, height |-> 10, img_width |-> 500, img_height |-> 100],
      [center |-> <<50, 485>>, width |-> 50, height |-> 10, img_width |-> 500, img_height |-> 100] }

(* The calls of get_window that are explored.                              *)
GetWindowCalls ==
    [center : ((-CenterMargin)..(MaxImage + CenterMargin))
                  \X ((-CenterMargin)..(MaxImage + CenterMargin)),
     width : 1..MaxWindow, height : 1..MaxWindow,
     img_width : 1..MaxImage, img_height : 1..MaxImage]
    \cup TestGetWindowCalls

(* The argument input_file, as in the tests.                               *)
InputFile == [parent |-> "tmp/fake/path", stem |-> "input", suffix |-> ".tif"]

(* input_file.parent / f"{input_file.stem}_postprocessed.png"              *)
OutputFile(input_file) ==
    [parent |-> input_file.parent, name |-> <<input_file.stem, "_postprocessed.png">>]

NoIntersectionMsg == "No intersection with coastline found"

(* Pixel grids of the scenes explored: the 28 x 40 scene at 1000 m of the  *)
(* tests, and a full 10 m tile.                                            *)
SceneGrids ==
    { [height |-> 40, width |-> 28, left |-> 451000, top |-> 7140000, res |-> 1000],
      [height |-> INPUT_MAX_SIZE, width |-> INPUT_MAX_SIZE,
       left |-> 300000, top |-> 5000040, res |-> 10] }

(* Band values of a scene: rows above `split` hold `upper` in every pixel, *)
(* the other rows hold `lower`. All zero, all one (as the tests), one band *)
(* only, and a scene whose upper half is zero.                             *)
SceneContents(grid) ==
    { [split |-> 0, upper |-> <<0, 0, 0>>, lower |-> <<0, 0, 0>>],
      [split |-> 0, upper |-> <<0, 0, 0>>, lower |-> <<1, 1, 1>>],
      [split |-> 0, upper |-> <<0, 0, 0>>, lower |-> <<0, 0, 9>>],
      [split |-> grid.height \div 2, upper |-> <<0, 0, 0>>, lower |-> <<1, 1, 1>>] }

Scenes ==
    UNION { { [height |-> g.height, width |-> g.width, left |-> g.left, top |-> g.top,
               res |-> g.res, split |-> c.split, upper |-> c.upper, lower |-> c.lower] :
              c \in SceneContents(g) } : g \in SceneGrids }

(* Scale of the plane projection that stands for the UTM zone of a scene:  *)
(* projected units per unit of longitude and latitude.                     *)
ProjectionScale == 5

(* latlon_to_utm.transform(lat, lon)                                       *)
latlon_to_utm(lat, lon) == <<lon * ProjectionScale, lat * ProjectionScale>>

(* rasterio.transform.rowcol(in_dataset.transform, x, y)                   *)
rowcol(ds, x, y) == <<(ds.top - y) \div ds.res, (x - ds.left) \div ds.res>>

(* The k-th vertex of the coastline inside the footprint of scene ds, as   *)
(* (lon, lat): the vertices are spread over the scene, at pixel centers,   *)
(* and on the footprint's border for the last row and column.              *)
VertexAt(ds, k) ==
    LET r == ((k - 1) * (ds.height \div 4 + 1)) % (ds.height + 1)
        c == ((k - 1) * (ds.width \div 3 + 1)) % (ds.width + 1)
        px == ds.left + c * ds.res + (IF c < ds.width THEN ds.res \div 2 ELSE 0)
        py == ds.top - r * ds.res - (IF r < ds.height THEN ds.res \div 2 ELSE 0)
    IN  [x |-> px \div ProjectionScale, y |-> py \div ProjectionScale]

Vertices(ds, from, to) == [k \in 1..(to - from + 1) |-> VertexAt(ds, from + k - 1)]

(* shapely geometries.                                                     *)
LineStringOf(coords) == [type |-> "LineString", coords |-> coords, geoms |-> <<>>]
MultiLineStringOf(lines) == [type |-> "MultiLineString", coords |-> <<>>, geoms |-> lines]
PointOf(coords) == [type |-> "Point", coords |-> <<coords>>, geoms |-> <<>>]

(* What footprint.intersection(gdf["geometry"]) may hold for scene ds: one *)
(* geometry per line of the coastline file, empty where the line misses    *)
(* the footprint, a point where it only touches it.                        *)
Intersections(ds) ==
    { <<>>,
      << LineStringOf(<<>>) >>,
      << LineStringOf(<<>>), PointOf(VertexAt(ds, 1)), MultiLineStringOf(<<>>) >>,
      << LineStringOf(Vertices(ds, 1, 2)) >>,
      << LineStringOf(Vertices(ds, 1, 3) \o << VertexAt(ds, 1) >>) >>,
      << LineStringOf(<<>>),
         MultiLineStringOf(<< Vertices(ds, 1, 3), Vertices(ds, 4, 5) >>),
         LineStringOf(Vertices(ds, 6, 7)) >>,
      << LineStringOf(Vertices(ds, 1, MaxVertices - 1)) >>,
      << LineStringOf(Vertices(ds, 1, MaxVertices)) >> }

(* The lines a geometry contributes to coastline_subsets.                  *)
LinesOf(geom) ==
    IF geom.type = "LineString" THEN << geom.coords >>
    ELSE IF geom.type = "MultiLineString" THEN geom.geoms
    ELSE <<>>

KeepAllLines(lines) == lines

(* [line for line in coastline_subsets if not line.is_empty]               *)
NonEmptyLines(lines) == SelectSeq(lines, LAMBDA line : line # <<>>)

CoastlineSubsets(geoms) ==
    NonEmptyLines(Flatten([i \in 1..Len(geoms) |-> LinesOf(geoms[i])]))

Uncapped(points) == points

(* coastline_points[:100]                                                  *)
Capped(points) == SubSeq(points, 1, Min(Len(points), MaxCandidates))

ShuffledWithRepeats(points, perm) == [i \in 1..Len(points) |-> points[perm[1]]]

(* random.shuffle(coastline_points), for the order perm.                   *)
Shuffled(points, perm) == [i \in 1..Len(points) |-> points[perm[i]]]

(* in_dataset.read(window=window): the part of the window that lies on the *)
(* scene's grid, as <<row_start, row_stop, col_start, col_stop>>.          *)
ReadWindow(ds, w) ==
    << Max(w[1], 0), Max(Min(w[2], ds.height), Max(w[1], 0)),
       Max(w[3], 0), Max(Min(w[4], ds.width), Max(w[3], 0)) >>

IsNodataAnyBand(bands) == \E b \in 1..Len(bands) : bands[b] = 0

(* np.count_nonzero(array, axis=0) == 0 for a pixel of these band values.  *)
IsNodata(bands) == \A b \in 1..Len(bands) : bands[b] = 0

Overlap(a, b, c, d) == Max(0, Min(b, d) - Max(a, c))

(* nodata_count of the array read.                                         *)
NodataCount(ds, array) ==
    (array[4] - array[3]) *
        ( (IF IsNodata(ds.upper) THEN Overlap(array[1], array[2], 0, ds.split) ELSE 0)
        + (IF IsNodata(ds.lower) THEN Overlap(array[1], array[2], ds.split, ds.height)
                                 ELSE 0) )

CenterCoordsLatLon(subset_center) == <<subset_center.y, subset_center.x>>

(* The center returned: (subset_center.x, subset_center.y), lon and lat.   *)
CenterCoords(subset_center) == <<subset_center.x, subset_center.y>>

(* The center pixel of a candidate.                                        *)
CenterPixel(ds, subset_center) ==
    LET center_coords_utm == latlon_to_utm(subset_center.y, subset_center.x)
    IN  rowcol(ds, center_coords_utm[1], center_coords_utm[2])

(* The window read around a candidate.                                     *)
SubsetWindow(ds, subset_center) ==
    get_window(CenterPixel(ds, subset_center), SUBSET_SIZE, SUBSET_SIZE,
               INPUT_MAX_SIZE, INPUT_MAX_SIZE)

----------------------------------------------------------------------------
(* The state of a function that has not been called.                       *)
RetryIdle ==
    /\ retry_pc = "idle"
    /\ uuid = None
    /\ nodefilter = None
    /\ transfer_error = None
    /\ transfer_fails = 0
    /\ events = <<>>
    /\ product_info = None
    /\ retry_raised = None

WindowIdle ==
    /\ window_pc = "idle"
    /\ window_center = None
    /\ window_width = 0
    /\ window_height = 0
    /\ image_width = 0
    /\ image_height = 0
    /\ window = None

PostIdle ==
    /\ post_pc = "idle"
    /\ in_dataset = None
    /\ intersection = <<>>
    /\ coastline_points = <<>>
    /\ tried = 0
    /\ reads = <<>>
    /\ output_dataset = None
    /\ post_result = None
    /\ post_raised = None

(* main.py 34-46: the state of s2coastalbot_main when its loop starts.     *)
MainInit ==
    /\ pc = "main"
    /\ cleaning \in CleaningValues
    /\ aoi_size \in TileCounts
    /\ ledger_file \in InitLedgers
    /\ folders = {}
    /\ tci_files = {}
    /\ clock = 1
    /\ n_calls = 0
    /\ downloaded_images = <<>>
    /\ footprint = <<>>
    /\ count = 0
    /\ found_suitable_product = FALSE
    /\ todo = <<>>
    /\ product_row = None
    /\ raised = None
    /\ errors = <<>>
    /\ tci_file_path = None
    /\ date = None
    /\ postprocessed_file_path = None
    /\ queries = <<>>
    /\ returned = <<>>
    /\ snapshot = <<>>
    /\ ledger_before = ledger_file
    /\ probes = <<>>
    /\ full_downloads = <<>>
    /\ appended = <<>>
    /\ project_path \in {None, Some("s2coastalbot")}
    /\ posted_images_file \in InitPostedImages
    /\ text = None
    /\ steps = <<>>

CdseIdle ==
    /\ cdse_pc = "idle"
    /\ listings = <<>>
    /\ feature_id = None
    /\ nodefilter_pattern = None
    /\ exclude = FALSE
    /\ nodes = <<>>
    /\ listing_requests = <<>>
    /\ node_todo = <<>>
    /\ session_gets = <<>>
    /\ opened = <<>>
    /\ cdse_errors = <<>>
    /\ cdse_returned = None

GeoIdle ==
    /\ geo_pc = "idle"
    /\ input_coords = None
    /\ request_points = <<>>
    /\ request_count = 0
    /\ radius = 0
    /\ response = "error"
    /\ requested = <<>>
    /\ location_name = None
    /\ formatted = None

MaxRuns == 2            \* runs of the bot started on the same data folder
Runs == 1..MaxRuns

RunsIdle ==
    /\ run_pc = [r \in Runs |-> "idle"]
    /\ run_images = [r \in Runs |-> <<>>]
    /\ run_title = [r \in Runs |-> None]
    /\ shared_ledger = None
    /\ run_clock = 0
    /\ run_downloads = <<>>
    /\ run_writes = <<>>

Init == MainInit /\ RetryIdle /\ WindowIdle /\ PostIdle /\ CdseIdle /\ GeoIdle /\ RunsIdle

(* One state of s2coastalbot_main, for the functions checked on their own. *)
MainIdle ==
    /\ MainInit
    /\ cleaning = "True"
    /\ aoi_size = 0
    /\ ledger_file = None
    /\ project_path = None
    /\ posted_images_file = None

(* main.py 48-52 and sentinel2.py 147-198: the loop of s2coastalbot_main   *)
(* calls download_tci_image, which reads the ledger and the AOI tiles,     *)
(* shuffles them and initialises the search.                               *)
CallDownload ==
    /\ pc = "main"
    /\ postprocessed_file_path = None
    /\ n_calls < MaxDownloads
    /\ n_calls' = n_calls + 1
    /\ downloaded_images' = ReadLedger(ledger_file)
    /\ footprint' \in Shuffles(aoi_size)
    /\ count' = 0
    /\ found_suitable_product' = FALSE
    /\ todo' = <<>>
    /\ queries' = <<>>
    /\ returned' = <<>>
    /\ snapshot' = ReadLedger(ledger_file)
    /\ ledger_before' = ledger_file
    /\ probes' = <<>>
    /\ full_downloads' = <<>>
    /\ clock' = clock + 1
    /\ pc' = "while"
    /\ UNCHANGED <<cleaning, aoi_size, ledger_file, folders, tci_files, product_row, raised,
                   errors, tci_file_path, date, postprocessed_file_path, appended>>
    /\ UNCHANGED <<project_path, posted_images_file, text, steps>>
    /\ UNCHANGED other_vars

(* What the two error exits of download_tci_image log and raise. *)
NoSuitableProductMsg == "No suitable product found in any tile within the footprint"
DownloadFailedMsg == "Failed sentinelsat download stopped processing"
PostprocessErrorMsg == "Error postprocessing image"

(* sys.exit(128) *)
SysExit == [exc |-> "SystemExit", code |-> Some(ExitStatus), msg |-> None]

(* An exception of class Exception (or a subclass) carrying a message. *)
Error(class, message) == [exc |-> class, code |-> None, msg |-> Some(message)]

(* read_nodata_from_l2a_prod: None when the metadata download gave None,   *)
(* else the percentage read from the metadata file.                        *)
read_nodata_from_l2a_prod(product_info_ok, percentage) ==
    IF ~product_info_ok THEN None ELSE Some(percentage)

(* find_tci_file(os.path.join(output_folder, filename)) *)
find_tci_file(filename, tci) ==
    IF filename \in tci THEN Some([product |-> filename, file |-> "TCI_10m.jp2"])
    ELSE None

(* sentinel2.py 199-216: one pass of the while loop up to the for loop: the *)
(* next 50-tile window is cut and submitted to the catalog, which answers.  *)
QueryWindow ==
    /\ pc = "while"
    /\ ~found_suitable_product
    /\ LoopCondition(count, Len(footprint))
    /\ \E products_df \in CatalogResults :
        /\ queries' = Append(queries, WindowSlice(footprint, count))
        /\ returned' = Append(returned, products_df)
        /\ todo' = NovelRows(products_df, downloaded_images)
    /\ count' = count + 1
    /\ pc' = "for"
    /\ UNCHANGED <<cleaning, aoi_size, ledger_file, folders, tci_files, clock, n_calls,
                   downloaded_images, footprint, found_suitable_product,
                   product_row, raised, errors, tci_file_path, date,
                   postprocessed_file_path, probes, full_downloads, appended,
                   snapshot, ledger_before>>
    /\ UNCHANGED <<project_path, posted_images_file, text, steps>>
    /\ UNCHANGED other_vars

(* sentinel2.py 207-216: api.query raises (network or HTTP failure); no     *)
(* handler surrounds the call, so the exception leaves download_tci_image.  *)
QueryFails ==
    /\ pc = "while"
    /\ ~found_suitable_product
    /\ LoopCondition(count, Len(footprint))
    /\ queries' = Append(queries, WindowSlice(footprint, count))
    /\ count' = count + 1
    /\ raised' = Some(Error("Exception", "catalog unavailable"))
    /\ pc' = "raised"
    /\ UNCHANGED <<cleaning, aoi_size, ledger_file, folders, tci_files, clock, n_calls,
                   downloaded_images, footprint, found_suitable_product, todo,
                   product_row, errors, tci_file_path, date,
                   postprocessed_file_path, returned, probes, full_downloads,
                   appended, snapshot, ledger_before>>
    /\ UNCHANGED <<project_path, posted_images_file, text, steps>>
    /\ UNCHANGED other_vars

(* sentinel2.py 219-241: one iteration of the for loop: the metadata probe  *)
(* of the next novel row (with its retries), then reject (and clean) or     *)
(* accept and break.                                                        *)
CheckCandidate ==
    /\ pc = "for"
    /\ todo # <<>>
    /\ \E product_info_ok \in DownloadOutcomes, partial \in BOOLEAN,
          percentage \in NodataValues :
        LET row == Head(todo)
            nodata_pixel_percentage ==
                read_nodata_from_l2a_prod(product_info_ok, percentage)
            on_disk == IF product_info_ok \/ partial
                       THEN folders \cup {row.filename} ELSE folders
        IN  /\ product_row' = Some(row)
            /\ probes' = Append(probes, <<row, nodata_pixel_percentage>>)
            /\ IF Rejected(nodata_pixel_percentage)
               THEN IF Truthy(cleaning)
                    THEN IF row.filename \in on_disk
                         THEN /\ folders' = on_disk \ {row.filename}
                              /\ tci_files' = tci_files \ {row.filename}
                              /\ todo' = Tail(todo)
                              /\ pc' = "for"
                              /\ UNCHANGED <<raised, found_suitable_product>>
                         ELSE \* shutil.rmtree of a missing folder
                              /\ raised' = Some(Error("FileNotFoundError", row.filename))
                              /\ pc' = "raised"
                              /\ folders' = on_disk
                              /\ UNCHANGED <<tci_files, todo, found_suitable_product>>
                    ELSE /\ folders' = on_disk
                         /\ todo' = Tail(todo)
                         /\ pc' = "for"
                         /\ UNCHANGED <<tci_files, raised, found_suitable_product>>
               ELSE /\ found_suitable_product' = TRUE
                    /\ folders' = on_disk
                    /\ todo' = <<>>
                    /\ pc' = "while"
                    /\ UNCHANGED <<tci_files, raised>>
    /\ UNCHANGED <<cleaning, aoi_size, ledger_file, clock, n_calls, downloaded_images,
                   footprint, count, errors, tci_file_path, date,
                   postprocessed_file_path, queries, returned, full_downloads,
                   appended, snapshot, ledger_before>>
    /\ UNCHANGED <<project_path, posted_images_file, text, steps>>
    /\ UNCHANGED other_vars

(* sentinel2.py 219-223: the for loop has no row left; back to the while test. *)
ForDone ==
    /\ pc = "for"
    /\ todo = <<>>
    /\ pc' = "while"
    /\ UNCHANGED <<cleaning, aoi_size, ledger_file, folders, tci_files, clock, n_calls,
                   downloaded_images, footprint, count, found_suitable_product,
                   todo, product_row, raised, errors, tci_file_path, date,
                   postprocessed_file_path, queries, returned, probes,
                   full_downloads, appended, snapshot, ledger_before>>
    /\ UNCHANGED <<project_path, posted_images_file, text, steps>>
    /\ UNCHANGED other_vars

(* sentinel2.py 243-245: the while loop ended without a suitable product. *)
NoSuitableProduct ==
    /\ pc = "while"
    /\ ~found_suitable_product
    /\ ~LoopCondition(count, Len(footprint))
    /\ errors' = Append(errors, NoSuitableProductMsg)
    /\ raised' = Some(SysExit)
    /\ pc' = "raised"
    /\ UNCHANGED <<cleaning, aoi_size, ledger_file, folders, tci_files, clock, n_calls,
                   downloaded_images, footprint, count, found_suitable_product,
                   todo, product_row, tci_file_path, date,
                   postprocessed_file_path, queries, returned, probes,
                   full_downloads, appended, snapshot, ledger_before>>
    /\ UNCHANGED <<project_path, posted_images_file, text, steps>>
    /\ UNCHANGED other_vars

(* Mutant of AppendRow: the row is written twice. *)
AppendRowTwice(df, now, title) ==
    Append(Append(df, [date |-> now, product |-> title]), [date |-> now, product |-> title])

(* downloaded_images.loc[len(downloaded_images)] = [now, title] *)
AppendRow(df, now, title) == Append(df, [date |-> now, product |-> title])

(* sentinel2.py 247-270: the TCI band of the accepted row is downloaded     *)
(* (with its retries); on failure sys.exit, on success the ledger is        *)
(* extended and rewritten and the TCI path and product date are returned.   *)
DownloadTci ==
    /\ pc = "while"
    /\ found_suitable_product
    /\ \E product_info_ok \in DownloadOutcomes, partial \in BOOLEAN :
        LET row == Get(product_row)
        IN  /\ full_downloads' = Append(full_downloads, row)
            /\ IF ~product_info_ok
               THEN /\ errors' = Append(errors, DownloadFailedMsg)
                    /\ raised' = Some(SysExit)
                    /\ pc' = "raised"
                    /\ folders' = IF partial THEN folders \cup {row.filename} ELSE folders
                    /\ UNCHANGED <<tci_files, downloaded_images, ledger_file, appended,
                                   tci_file_path, date>>
               ELSE /\ folders' = folders \cup {row.filename}
                    /\ tci_files' = tci_files \cup {row.filename}
                    /\ downloaded_images' = AppendRow(downloaded_images, clock, row.title)
                    /\ ledger_file' = Some(downloaded_images')
                    /\ appended' = Append(appended, row.title)
                    /\ tci_file_path' = find_tci_file(row.filename, tci_files')
                    /\ date' = Some(row.date)
                    /\ pc' = "postprocess"
                    /\ UNCHANGED <<raised, errors>>
    /\ UNCHANGED <<cleaning, aoi_size, clock, n_calls, footprint, count,
                   found_suitable_product, todo, product_row,
                   postprocessed_file_path, queries, returned, snapshot,
                   ledger_before, probes>>
    /\ UNCHANGED <<project_path, posted_images_file, text, steps>>
    /\ UNCHANGED other_vars

(* clean_data_based_on_tci_file: shutil.rmtree(tci_file_path.parents[4]) *)
CleanedFolders(path, set) == set \ {Get(path).product}

(* tci_file_path.parents[4].stem: the product folder's name without .SAFE  *)
Stem(path) == (CHOOSE p \in Products : p.filename = Get(path).product).title

(* One call recorded in steps.                                             *)
Step(name, path) == [call |-> name, product |-> Get(path).product]

MastodonAuthMsg == "Error authenticating to Mastodon API"
TootMsg == "Error posting toot"
TwitterAuthMsg == "Error authenticating to twitter API"
TweetMsg == "Error posting tweet"

AfterLoopBodyAlwaysPost(path) == "mastodon_auth"

(* while postprocessed_file_path is None: where main goes on after one     *)
(* pass of the loop body.                                                  *)
AfterLoopBody(path) == IF path = None THEN "main" ELSE "mastodon_auth"

(* if cleaning: clean_data_based_on_tci_file(tci_file_path), then what     *)
(* follows at position `then`; rmtree raises when the folder is missing.   *)
CleanIfAsked(then) ==
    IF GetBoolean(cleaning)
    THEN /\ steps' = Append(steps, Step("clean", tci_file_path))
         /\ IF Get(tci_file_path).product \in folders
            THEN /\ folders' = CleanedFolders(tci_file_path, folders)
                 /\ tci_files' = CleanedFolders(tci_file_path, tci_files)
                 /\ pc' = then
                 /\ UNCHANGED raised
            ELSE /\ raised' = Some(Error("FileNotFoundError", "No such file or directory"))
                 /\ pc' = "crashed"
                 /\ UNCHANGED <<folders, tci_files>>
    ELSE /\ pc' = then
         /\ UNCHANGED <<steps, folders, tci_files, raised>>

(* main.py 54-62: postprocess_tci_image returned a subset. *)
PostprocessSubset ==
    /\ pc = "postprocess"
    /\ postprocessed_file_path' =
           Some([product |-> Get(tci_file_path).product, file |-> "TCI_10m_postprocessed.png"])
    /\ pc' = "location"
    /\ UNCHANGED <<cleaning, aoi_size, ledger_file, folders, tci_files, clock, n_calls,
                   downloaded_images, footprint, count, found_suitable_product,
                   todo, product_row, raised, errors, tci_file_path, date,
                   queries, returned, probes, full_downloads, appended,
                   snapshot, ledger_before>>
    /\ UNCHANGED <<project_path, posted_images_file, text, steps>>
    /\ UNCHANGED other_vars

(* main.py 63-68: the location is named and the status text is built.      *)
LocationNamed ==
    /\ pc = "location"
    /\ text' = Some([product |-> Get(tci_file_path).product, date |-> Get(date)])
    /\ pc' = AfterLoopBody(postprocessed_file_path)
    /\ UNCHANGED <<cleaning, aoi_size, ledger_file, folders, tci_files, clock, n_calls,
                   downloaded_images, footprint, count, found_suitable_product,
                   todo, product_row, raised, errors, tci_file_path, date,
                   postprocessed_file_path, queries, returned, probes, full_downloads,
                   appended, snapshot, ledger_before>>
    /\ UNCHANGED <<project_path, posted_images_file, steps>>
    /\ UNCHANGED other_vars

(* main.py 63-72: get_location_name (or the formatting) raised: log, clean  *)
(* if asked; postprocessed_file_path is already set, so the loop ends.      *)
LocationError ==
    /\ pc = "location"
    /\ errors' = Append(errors, PostprocessErrorMsg)
    /\ CleanIfAsked(AfterLoopBody(postprocessed_file_path))
    /\ UNCHANGED <<cleaning, aoi_size, ledger_file, clock, n_calls,
                   downloaded_images, footprint, count, found_suitable_product,
                   todo, product_row, tci_file_path, date,
                   postprocessed_file_path, queries, returned, probes,
                   full_downloads, appended, snapshot, ledger_before>>
    /\ UNCHANGED <<project_path, posted_images_file, text>>
    /\ UNCHANGED other_vars

(* main.py 61-62: postprocess_tci_image returned (None, None): continue. *)
PostprocessNoSubset ==
    /\ pc = "postprocess"
    /\ postprocessed_file_path' = None
    /\ pc' = AfterLoopBody(postprocessed_file_path')
    /\ UNCHANGED <<cleaning, aoi_size, ledger_file, folders, tci_files, clock, n_calls,
                   downloaded_images, footprint, count, found_suitable_product,
                   todo, product_row, raised, errors, tci_file_path, date,
                   queries, returned, probes, full_downloads, appended,
                   snapshot, ledger_before>>
    /\ UNCHANGED <<project_path, posted_images_file, text, steps>>
    /\ UNCHANGED other_vars

(* main.py 69-72: postprocess_tci_image raised: log, clean if asked, loop. *)
PostprocessError ==
    /\ pc = "postprocess"
    /\ errors' = Append(errors, PostprocessErrorMsg)
    /\ CleanIfAsked(AfterLoopBody(postprocessed_file_path))
    /\ UNCHANGED <<cleaning, aoi_size, ledger_file, clock, n_calls,
                   downloaded_images, footprint, count, found_suitable_product,
                   todo, product_row, tci_file_path, date,
                   postprocessed_file_path, queries, returned, probes,
                   full_downloads, appended, snapshot, ledger_before>>
    /\ UNCHANGED <<project_path, posted_images_file, text>>
    /\ UNCHANGED other_vars

(* What a posting stage leaves alone whether it succeeds or fails.         *)
StageFrame ==
    /\ UNCHANGED <<cleaning, aoi_size, ledger_file, clock, n_calls,
                   downloaded_images, footprint, count, found_suitable_product,
                   todo, product_row, tci_file_path, date,
                   postprocessed_file_path, queries, returned, probes,
                   full_downloads, appended, snapshot, ledger_before>>
    /\ UNCHANGED <<project_path, posted_images_file, text>>
    /\ UNCHANGED other_vars

(* The except branch of a posting stage: log, clean if asked, return.      *)
StageFails(msg) ==
    /\ errors' = Append(errors, msg)
    /\ CleanIfAsked("done")

(* A posting stage went through: the next stage follows.                   *)
StagePasses(name, then) ==
    /\ steps' = Append(steps, Step(name, tci_file_path))
    /\ pc' = then
    /\ UNCHANGED <<errors, folders, tci_files, raised>>

(* media_post / media_upload read the subset file, and the status is text. *)
CanPost == text # None /\ Get(postprocessed_file_path).product \in folders

(* main.py 74-97: Mastodon(...) and log_in.                                *)
MastodonAuth ==
    /\ pc = "mastodon_auth"
    /\ \/ StagePasses("mastodon_auth", "toot")
       \/ StageFails(MastodonAuthMsg)
    /\ StageFrame

(* main.py 99-115: media_post and status_post.                             *)
PostToot ==
    /\ pc = "toot"
    /\ \/ CanPost /\ StagePasses("toot", "twitter_auth")
       \/ StageFails(TootMsg)
    /\ StageFrame

(* main.py 117-137: tweepy.OAuthHandler, API and Client.                   *)
TwitterAuth ==
    /\ pc = "twitter_auth"
    /\ \/ StagePasses("twitter_auth", "tweet")
       \/ StageFails(TwitterAuthMsg)
    /\ StageFrame

(* main.py 139-148: media_upload and create_tweet.                         *)
PostTweet ==
    /\ pc = "tweet"
    /\ \/ CanPost /\ StagePasses("tweet", "update")
       \/ StageFails(TweetMsg)
    /\ StageFrame

AppendPostedTwice(df, now, product) ==
    Append(Append(df, [date |-> now, product |-> product]), [date |-> now, product |-> product])

(* posted_images.loc[len(posted_images)] = [now, product]                  *)
AppendPosted(df, now, product) == Append(df, [date |-> now, product |-> product])

(* main.py 150-165: the row of the posted scene is added to                *)
(* posted_images.csv, then the product is cleaned if asked, and main       *)
(* returns. project_path is a global that only the script block defines.   *)
UpdatePostedImages ==
    /\ pc = "update"
    /\ IF project_path = None
       THEN /\ raised' = Some(Error("NameError", "name 'project_path' is not defined"))
            /\ pc' = "crashed"
            /\ UNCHANGED <<posted_images_file, steps, folders, tci_files>>
       ELSE /\ posted_images_file' =
                   Some(AppendPosted(ReadLedger(posted_images_file), clock,
                                     Stem(tci_file_path)))
            /\ IF GetBoolean(cleaning)
               THEN /\ steps' = steps \o << Step("to_csv", tci_file_path),
                                            Step("clean", tci_file_path) >>
                    /\ folders' = CleanedFolders(tci_file_path, folders)
                    /\ tci_files' = CleanedFolders(tci_file_path, tci_files)
               ELSE /\ steps' = Append(steps, Step("to_csv", tci_file_path))
                    /\ UNCHANGED <<folders, tci_files>>
            /\ pc' = "done"
            /\ UNCHANGED raised
    /\ UNCHANGED <<cleaning, aoi_size, ledger_file, clock, n_calls,
                   downloaded_images, footprint, count, found_suitable_product,
                   todo, product_row, errors, tci_file_path, date,
                   postprocessed_file_path, queries, returned, probes,
                   full_downloads, appended, snapshot, ledger_before>>
    /\ UNCHANGED <<project_path, text>>
    /\ UNCHANGED other_vars

Next ==
    \/ CallDownload
    \/ QueryWindow
    \/ QueryFails
    \/ CheckCandidate
    \/ ForDone
    \/ NoSuitableProduct
    \/ DownloadTci
    \/ PostprocessSubset
    \/ PostprocessNoSubset
    \/ PostprocessError
    \/ LocationNamed
    \/ LocationError
    \/ MastodonAuth
    \/ PostToot
    \/ TwitterAuth
    \/ PostTweet
    \/ UpdatePostedImages

Spec == Init /\ [][Next]_vars

(* Every external call returns: a step that can be taken is taken.         *)
SpecLive == Init /\ [][Next]_vars /\ WF_vars(Next)

----------------------------------------------------------------------------
(* sentinelsat_retry_download called on its own, for every product, node   *)
(* filter, transfer error and number of failures of the transfer.          *)

RetryInit ==
    /\ retry_pc = "called"
    /\ uuid \in {Some(p.uuid) : p \in Products}
    /\ nodefilter \in {Some(f) : f \in NodeFilters}
    /\ transfer_error \in {Some(e) : e \in TransferErrors}
    /\ transfer_fails \in 0..MaxFailures
    /\ events = <<>>
    /\ product_info = None
    /\ retry_raised = None
    /\ MainIdle
    /\ WindowIdle
    /\ PostIdle
    /\ CdseIdle
    /\ GeoIdle
    /\ RunsIdle

(* sentinel2.py 86-129: the whole call.                                    *)
RetryDownload ==
    /\ retry_pc = "called"
    /\ LET r == sentinelsat_retry_download(transfer_fails, Get(transfer_error))
       IN  /\ events' = r.events
           /\ product_info' = IF r.ok
                              THEN Some(ApiDownload(Get(uuid), Get(nodefilter)))
                              ELSE None
           /\ retry_raised' = r.raised
           /\ retry_pc' = IF r.raised = None THEN "returned" ELSE "raised"
    /\ UNCHANGED <<uuid, nodefilter, transfer_error, transfer_fails>>
    /\ UNCHANGED <<main_vars, window_vars, post_vars, cdse_vars, geo_vars, runs_vars>>

RetryNext == RetryDownload

SpecRetry == RetryInit /\ [][RetryNext]_vars

----------------------------------------------------------------------------
(* get_window called on its own.                                           *)

WindowInit ==
    /\ window_pc = "called"
    /\ \E c \in GetWindowCalls :
           /\ window_center = Some(c.center)
           /\ window_width = c.width
           /\ window_height = c.height
           /\ image_width = c.img_width
           /\ image_height = c.img_height
    /\ window = None
    /\ MainIdle
    /\ RetryIdle
    /\ PostIdle
    /\ CdseIdle
    /\ GeoIdle
    /\ RunsIdle

(* postprocessing.py 23-52: the whole call.                                *)
GetWindow ==
    /\ window_pc = "called"
    /\ window' = Some(get_window(Get(window_center), window_width, window_height,
                                 image_width, image_height))
    /\ window_pc' = "returned"
    /\ UNCHANGED <<window_center, window_width, window_height, image_width, image_height>>
    /\ UNCHANGED <<main_vars, retry_vars, post_vars, cdse_vars, geo_vars, runs_vars>>

WindowNext == GetWindow

SpecWindow == WindowInit /\ [][WindowNext]_vars

----------------------------------------------------------------------------
(* postprocess_tci_image called on its own.                                *)

PostInit ==
    /\ post_pc = "called"
    /\ \E ds \in Scenes :
           /\ in_dataset = Some(ds)
           /\ intersection \in Intersections(ds)
    /\ coastline_points = <<>>
    /\ tried = 0
    /\ reads = <<>>
    /\ output_dataset = None
    /\ post_result = None
    /\ post_raised = None
    /\ MainIdle
    /\ RetryIdle
    /\ WindowIdle
    /\ CdseIdle
    /\ GeoIdle
    /\ RunsIdle

(* postprocessing.py 70-100: no line of the coastline crosses the scene.   *)
NoIntersection ==
    /\ post_pc = "called"
    /\ CoastlineSubsets(intersection) = <<>>
    /\ post_raised' = Some(Error("Exception", NoIntersectionMsg))
    /\ post_pc' = "raised"
    /\ UNCHANGED <<in_dataset, intersection, coastline_points, tried, reads,
                   output_dataset, post_result>>
    /\ UNCHANGED <<main_vars, retry_vars, window_vars, cdse_vars, geo_vars, runs_vars>>

(* postprocessing.py 70-110: the candidate centers are listed, shuffled    *)
(* and capped.                                                             *)
ListCandidates ==
    /\ post_pc = "called"
    /\ CoastlineSubsets(intersection) # <<>>
    /\ LET points == Flatten(CoastlineSubsets(intersection))
       IN  \E perm \in Shuffles(Len(points)) :
               coastline_points' = Capped(Shuffled(points, perm))
    /\ post_pc' = "loop"
    /\ UNCHANGED <<in_dataset, intersection, tried, reads, output_dataset, post_result,
                   post_raised>>
    /\ UNCHANGED <<main_vars, retry_vars, window_vars, cdse_vars, geo_vars, runs_vars>>

(* postprocessing.py 111-159: one iteration of the for loop.               *)
TryCandidate ==
    /\ post_pc = "loop"
    /\ tried < Len(coastline_points)
    /\ LET ds == Get(in_dataset)
           subset_center == coastline_points[tried + 1]
           w == SubsetWindow(ds, subset_center)
           array == ReadWindow(ds, w)
       IN  /\ reads' = Append(reads, w)
           /\ IF NodataCount(ds, array) = 0
              THEN /\ output_dataset' = Some([file |-> OutputFile(InputFile),
                                              height |-> SUBSET_SIZE,
                                              width |-> SUBSET_SIZE,
                                              window |-> w, array |-> array])
                   /\ post_result' = Some(<< Some(OutputFile(InputFile)),
                                             Some(CenterCoords(subset_center)) >>)
                   /\ post_pc' = "returned"
                   /\ UNCHANGED tried
              ELSE /\ tried' = tried + 1
                   /\ UNCHANGED <<output_dataset, post_result, post_pc>>
    /\ UNCHANGED <<in_dataset, intersection, coastline_points, post_raised>>
    /\ UNCHANGED <<main_vars, retry_vars, window_vars, cdse_vars, geo_vars, runs_vars>>

(* postprocessing.py 161-162: no candidate was free of nodata.             *)
NoSubsetFound ==
    /\ post_pc = "loop"
    /\ tried = Len(coastline_points)
    /\ post_result' = Some(<<None, None>>)
    /\ post_pc' = "returned"
    /\ UNCHANGED <<in_dataset, intersection, coastline_points, tried, reads,
                   output_dataset, post_raised>>
    /\ UNCHANGED <<main_vars, retry_vars, window_vars, cdse_vars, geo_vars, runs_vars>>

PostNext ==
    \/ NoIntersection
    \/ ListCandidates
    \/ TryCandidate
    \/ NoSubsetFound

SpecPost == PostInit /\ [][PostNext]_vars

----------------------------------------------------------------------------
(* cdse.odata_download_with_nodefilter, with cdse.search_nodes.            *)
(* A name, a pattern and a url are sequences of pieces of text; "*" in a   *)
(* pattern stands for any run of pieces.                                   *)

(* The nodes of tests/test_cdse.py, and a folder and files one level down.  *)
MOCK_TCI_NODE ==
    [Name |-> << "T57MWM_20240827T234739_", "TCI_10m", ".jp2" >>,
     ContentLength |-> 135468439, uri |-> << "mocked-uri", "TCI_10m.jp2", "Nodes" >>]
MOCK_B8_NODE ==
    [Name |-> << "T57MWM_20240827T234739_", "B08_10m", ".jp2" >>,
     ContentLength |-> 113959795, uri |-> << "mocked-uri", "B08_10m.jp2", "Nodes" >>]
MOCK_FOLDER_NODE ==
    [Name |-> << "folder" >>,
     ContentLength |-> 0, uri |-> << "mocked-uri", "folder", "Nodes" >>]
MOCK_NESTED_IMG_NODE ==
    [Name |-> << "nested_raster_file", ".jp2" >>,
     ContentLength |-> 12345678,
     uri |-> << "mocked-uri", "folder", "nested_raster_file.jp2", "Nodes" >>]
MOCK_NESTED_MTD_NODE ==
    [Name |-> << "nested_mtd_file", ".xml" >>,
     ContentLength |-> 12345678,
     uri |-> << "mocked-uri", "folder", "nested_mtd_file.xml", "Nodes" >>]
SubFolderNode ==
    [Name |-> << "R10m" >>,
     ContentLength |-> 0, uri |-> << "mocked-uri", "folder", "R10m", "Nodes" >>]
DeepTciNode ==
    [Name |-> << "T57MWM_20240827T234739_", "TCI_10m", ".jp2" >>,
     ContentLength |-> 135468439,
     uri |-> << "mocked-uri", "folder", "R10m", "TCI_10m.jp2", "Nodes" >>]
DeepMtdNode ==
    [Name |-> << "MTD_TL", ".xml" >>,
     ContentLength |-> 1234,
     uri |-> << "mocked-uri", "folder", "R10m", "MTD_TL.xml", "Nodes" >>]

RootListings ==
    { << MOCK_TCI_NODE, MOCK_B8_NODE >>,
      << MOCK_FOLDER_NODE, MOCK_TCI_NODE >>,
      << MOCK_FOLDER_NODE >>,
      << MOCK_B8_NODE, MOCK_FOLDER_NODE >> }
FolderListings ==
    { << MOCK_NESTED_IMG_NODE, MOCK_NESTED_MTD_NODE >>,
      << SubFolderNode, MOCK_NESTED_MTD_NODE >>,
      << >> }
SubFolderListings ==
    { << DeepTciNode >>, << DeepMtdNode, DeepTciNode >> }
Patterns == { << "*", "TCI_10m", ".jp2" >>, << "*", ".jp2" >> }
FeatureIds == { "mock_feature_id" }
StatusCodes == { 200, 404 }
Contents == { << "data_chunk" >>, << "", "data_chunk" >> }

(* f"https://download.dataspace.copernicus.eu/odata/v1/Products({feature_id})/Nodes" *)
ProductUrl(id) ==
    << "https://download.dataspace.copernicus.eu/odata/v1/Products(", id, ")", "Nodes" >>

(* fnmatch.fnmatch(name, pattern) *)
RECURSIVE fnmatch(_, _)
fnmatch(name, pattern) ==
    IF pattern = <<>> THEN name = <<>>
    ELSE IF Head(pattern) = "*"
         THEN \/ fnmatch(name, Tail(pattern))
              \/ name # <<>> /\ fnmatch(Tail(name), pattern)
         ELSE /\ name # <<>>
              /\ Head(name) = Head(pattern)
              /\ fnmatch(Tail(name), Tail(pattern))

IsDirNever(node) == FALSE

(* if node["ContentLength"] == 0: the node is a directory.                 *)
IsDir(node) == node.ContentLength = 0

(* if exclude and not match: append; elif match: append.                   *)
Appended(match, excl) == IF excl /\ ~match THEN TRUE ELSE match

(* search_nodes(node["Nodes"]["uri"], pattern): the recursive call leaves  *)
(* exclude at its default.                                                 *)
RecursiveExclude(excl) == FALSE

(* search_nodes: the output nodes and the urls requested, in order.        *)
RECURSIVE search_nodes(_, _, _, _)
RECURSIVE SearchLoop(_, _, _, _, _)
search_nodes(tree, node_url, pattern, excl) ==
    SearchLoop(tree, tree[node_url], pattern, excl,
               [output_nodes |-> <<>>, requests |-> << node_url >>])

(* for node in input_nodes: ...                                            *)
SearchLoop(tree, input_nodes, pattern, excl, acc) ==
    IF input_nodes = <<>> THEN acc
    ELSE LET node == Head(input_nodes)
             after ==
                 IF IsDir(node)
                 THEN LET sub == search_nodes(tree, node.uri, pattern,
                                              RecursiveExclude(excl))
                      IN  [output_nodes |-> acc.output_nodes \o sub.output_nodes,
                           requests |-> acc.requests \o sub.requests]
                 ELSE IF node.ContentLength >= 0
                         /\ Appended(fnmatch(node.Name, pattern), excl)
                      THEN [acc EXCEPT !.output_nodes = Append(@, node)]
                      ELSE acc
         IN  SearchLoop(tree, Tail(input_nodes), pattern, excl, after)

(* f"{node['Nodes']['uri'][:-5]}$value": the last five characters, the     *)
(* piece "Nodes", are cut off and "$value" is put in their place.          *)
ValueUrl(node) == SubSeq(node.uri, 1, Len(node.uri) - 1) \o << "$value" >>

IsSuccessAny(status_code) == TRUE

(* if response.status_code == 200 *)
IsSuccess(status_code) == status_code = 200

(* for chunk in response.iter_content(...): if chunk: file.write(chunk)    *)
Written(content) == SelectSeq(content, LAMBDA chunk : chunk # "")

FailedMsg(status_code) == << "Failed to download file. Status code: ", status_code >>

CdseInit ==
    /\ cdse_pc = "called"
    /\ feature_id \in {Some(id) : id \in FeatureIds}
    /\ \E root \in RootListings, folder \in FolderListings, sub \in SubFolderListings :
           listings = (ProductUrl(Get(feature_id)) :> root)
                          @@ (MOCK_FOLDER_NODE.uri :> folder)
                          @@ (SubFolderNode.uri :> sub)
    /\ nodefilter_pattern \in {Some(p) : p \in Patterns}
    /\ exclude \in BOOLEAN
    /\ nodes = <<>>
    /\ listing_requests = <<>>
    /\ node_todo = <<>>
    /\ session_gets = <<>>
    /\ opened = <<>>
    /\ cdse_errors = <<>>
    /\ cdse_returned = None
    /\ MainIdle
    /\ RetryIdle
    /\ WindowIdle
    /\ PostIdle
    /\ GeoIdle
    /\ RunsIdle

(* cdse.py 74-76: the node tree is searched.                               *)
SearchNodes ==
    /\ cdse_pc = "called"
    /\ LET found == search_nodes(listings, ProductUrl(Get(feature_id)),
                                 Get(nodefilter_pattern), exclude)
       IN  /\ nodes' = found.output_nodes
           /\ listing_requests' = found.requests
           /\ node_todo' = found.output_nodes
    /\ cdse_pc' = "for"
    /\ UNCHANGED <<listings, feature_id, nodefilter_pattern, exclude, session_gets,
                   opened, cdse_errors, cdse_returned>>
    /\ UNCHANGED <<main_vars, retry_vars, window_vars, post_vars, geo_vars, runs_vars>>

(* cdse.py 78-96: one iteration of the for loop over the nodes.            *)
DownloadNode ==
    /\ cdse_pc = "for"
    /\ node_todo # <<>>
    /\ LET node == Head(node_todo)
       IN  \E status_code \in StatusCodes, content \in Contents :
               /\ session_gets' = Append(session_gets, << ValueUrl(node), status_code >>)
               /\ IF IsSuccess(status_code)
                  THEN /\ opened' = Append(opened, << node.Name, Written(content) >>)
                       /\ UNCHANGED cdse_errors
                  ELSE /\ cdse_errors' = cdse_errors \o << FailedMsg(status_code),
                                                           << "response.text" >> >>
                       /\ UNCHANGED opened
    /\ node_todo' = Tail(node_todo)
    /\ UNCHANGED <<cdse_pc, listings, feature_id, nodefilter_pattern, exclude, nodes,
                   listing_requests, cdse_returned>>
    /\ UNCHANGED <<main_vars, retry_vars, window_vars, post_vars, geo_vars, runs_vars>>

(* cdse.py 98: return feature_id.                                          *)
ReturnFeatureId ==
    /\ cdse_pc = "for"
    /\ node_todo = <<>>
    /\ cdse_returned' = feature_id
    /\ cdse_pc' = "returned"
    /\ UNCHANGED <<listings, feature_id, nodefilter_pattern, exclude, nodes,
                   listing_requests, node_todo, session_gets, opened, cdse_errors>>
    /\ UNCHANGED <<main_vars, retry_vars, window_vars, post_vars, geo_vars, runs_vars>>

CdseNext ==
    \/ SearchNodes
    \/ DownloadNode
    \/ ReturnFeatureId

SpecCdse == CdseInit /\ [][CdseNext]_vars

----------------------------------------------------------------------------
(* geoutils.get_location_name and geoutils.format_lon_lat.                 *)
(* Coordinates are whole hundredths of a degree; a point requested is      *)
(* named by its circle around input_coords (ring 0 is input_coords itself, *)
(* ring r has radius r tenths of a degree) and its index on the circle.    *)

RequestLimit == 1000
RingPeriod == 10
SliceParts == 9
CircleCoords == 65

LonValues == {-7300, -4, 0, 10}
LatValues == {-3391, 0, 4560}

MagnitudeSigned(v) == v

(* abs(v) *)
Magnitude(v) == IF v < 0 THEN -v ELSE v

(* "%.1f" % a: the nearest tenth, as its whole part and its decimal.       *)
OneDecimal(a) ==
    LET tenths == (a + 5) \div 10
    IN  [whole |-> tenths \div 10, decimal |-> tenths % 10]

(* format_lon_lat(coords) *)
format_lon_lat(coords) ==
    LET lon == coords[1]
        lat == coords[2]
    IN  << OneDecimal(Magnitude(lat)), "°", IF lat < 0 THEN "S" ELSE "N", " ",
           OneDecimal(Magnitude(lon)), "°", IF lon < 0 THEN "W" ELSE "E" >>

(* circle[:: len(circle) // 9]: the coords of the circle that are picked.  *)
Picked(ring) ==
    LET step == CircleCoords \div SliceParts
        n == (CircleCoords + step - 1) \div step
    IN  [k \in 1..n |-> [ring |-> ring, index |-> (k - 1) * step]]

(* "error" in response: the initial text "error", or an answer of the      *)
(* service with the key "error".                                           *)
HasError(answer) == answer \in {"error", "json with error"}
Answers == {"json with error", "json with display_name"}

UnknownLocation == [value |-> "Unknown location", point |-> None]
DisplayName(point) == [value |-> "display_name", point |-> Some(point)]

(* if count >= 1000 *)
ReturnsUnknown(answer, n) == n >= RequestLimit

GeoInit ==
    /\ geo_pc = "called"
    /\ input_coords \in {Some(<<lon, lat>>) : lon \in LonValues, lat \in LatValues}
    /\ request_points = << [ring |-> 0, index |-> 0] >>
    /\ request_count = 0
    /\ radius = 0
    /\ response = "error"
    /\ requested = <<>>
    /\ location_name = None
    /\ formatted = None
    /\ MainIdle
    /\ RetryIdle
    /\ WindowIdle
    /\ PostIdle
    /\ CdseIdle
    /\ RunsIdle

(* geoutils.py 18-41: the whole call of format_lon_lat.                    *)
FormatLonLat ==
    /\ geo_pc = "called"
    /\ request_count = 0
    /\ formatted' = Some(format_lon_lat(Get(input_coords)))
    /\ geo_pc' = "formatted"
    /\ UNCHANGED <<input_coords, request_points, request_count, radius, response,
                   requested, location_name>>
    /\ UNCHANGED <<main_vars, retry_vars, window_vars, post_vars, cdse_vars, runs_vars>>

(* geoutils.py 61-87: one pass of the while loop of get_location_name.     *)
RequestLocation ==
    /\ geo_pc = "called"
    /\ HasError(response) /\ request_count < RequestLimit
    /\ LET grow == request_count % RingPeriod = 1
           new_radius == IF grow THEN radius + 1 ELSE radius
           new_points == IF grow THEN request_points \o Picked(new_radius)
                                 ELSE request_points
           coords == new_points[request_count + 1]
       IN  /\ radius' = new_radius
           /\ request_points' = new_points
           /\ \E answer \in Answers :
                  /\ response' = answer
                  /\ requested' = Append(requested, [point |-> coords, answer |-> answer])
    /\ request_count' = request_count + 1
    /\ UNCHANGED <<geo_pc, input_coords, location_name, formatted>>
    /\ UNCHANGED <<main_vars, retry_vars, window_vars, post_vars, cdse_vars, runs_vars>>

(* geoutils.py 89-92: the loop has ended.                                  *)
ReturnLocation ==
    /\ geo_pc = "called"
    /\ ~(HasError(response) /\ request_count < RequestLimit)
    /\ location_name' =
           IF ReturnsUnknown(response, request_count)
           THEN Some(UnknownLocation)
           ELSE Some(DisplayName(requested[Len(requested)].point))
    /\ geo_pc' = "returned"
    /\ UNCHANGED <<input_coords, request_points, request_count, radius, response,
                   requested, formatted>>
    /\ UNCHANGED <<main_vars, retry_vars, window_vars, post_vars, cdse_vars, runs_vars>>

GeoNext ==
    \/ FormatLonLat
    \/ RequestLocation
    \/ ReturnLocation

SpecGeo == GeoInit /\ [][GeoNext]_vars

----------------------------------------------------------------------------
(* Properties of download_tci_image and of the loop of s2coastalbot_main. *)

TitlesOf(df) == {df[i].product : i \in 1..Len(df)}
ProbedRows == [i \in 1..Len(probes) |-> probes[i][1]]
Last(s) == s[Len(s)]
IsPrefix(s, t) == Len(s) <= Len(t) /\ SubSeq(t, 1, Len(s)) = s

(* The call ended in the 'no suitable product' exit. *)
Exhausted == pc = "raised" /\ errors # <<>> /\ Last(errors) = NoSuitableProductMsg

(* The call ended in the 'download failed' exit. *)
DownloadFailed == pc = "raised" /\ errors # <<>> /\ Last(errors) = DownloadFailedMsg

(* The exception is one `except Exception` / pytest.raises(Exception) catches *)
(* and its text contains `message`.                                           *)
IsExceptionWith(e, message) == e.exc # "SystemExit" /\ e.msg = Some(message)

(* C1: a candidate whose title is in the ledger snapshot read at the start  *)
(* of the call is never probed, never accepted, never downloaded in full.   *)
C1_NoveltyFilter ==
    \A t \in TitlesOf(snapshot) :
        /\ \A i \in 1..Len(probes) : probes[i][1].title # t
        /\ (found_suitable_product => Get(product_row).title # t)
        /\ \A i \in 1..Len(full_downloads) : full_downloads[i].title # t

(* C1 witness: the catalog answered with a ledger-listed product and another *)
(* product of the same answer went through probe and full download.          *)
C1_Witness ==
    /\ \E r \in Range(Flatten(returned)) : r.title \in TitlesOf(snapshot)
    /\ probes # <<>>
    /\ full_downloads # <<>>

C3_NoDuplicateAppend ==
    /\ NoDup(appended)
    /\ ledger_file # None => NoDup([i \in 1..Len(Get(ledger_file)) |-> Get(ledger_file)[i].product])

(* C3 witness: the loop of main called download_tci_image twice and both    *)
(* calls appended.                                                          *)
C3_Witness == Len(appended) = 2 /\ n_calls = 2

(* C4 (as claimed): at the 'no suitable product' exit every window, hence   *)
(* every tile of the AOI, has been submitted to a catalog query.            *)
C4_AllTilesQueriedWhenExhausted ==
    Exhausted => Range(footprint) \subseteq UNION {Range(queries[i]) : i \in 1..Len(queries)}

(* C5: every query carries at most 50 tiles; the windows of one call are    *)
(* consecutive slices of the shuffled list and pairwise disjoint.           *)
C5_WindowsBoundedDisjoint ==
    /\ \A i \in 1..Len(queries) :
        /\ Len(queries[i]) <= WindowSize
        /\ (i - 1) * WindowSize + Len(queries[i]) <= Len(footprint)
        /\ queries[i] = [k \in 1..Len(queries[i]) |-> footprint[(i - 1) * WindowSize + k]]
        /\ (i < Len(queries) => Len(queries[i]) = WindowSize)
    /\ \A i, j \in 1..Len(queries) :
        i # j => Range(queries[i]) \cap Range(queries[j]) = {}

(* C5 witness: a call that issued two queries. *)
C5_Witness == Len(queries) = 2

(* C6: the accepted candidate is the last one probed, its probe read        *)
(* exactly 0, every earlier probe was rejected, the probes are the novel    *)
(* rows of the answers in order with none skipped, the accepted row belongs *)
(* to the last answer (no query after acceptance), and only the accepted    *)
(* row is ever downloaded in full.                                          *)
C6_AcceptFirstZeroNodata ==
    /\ IsPrefix(ProbedRows,
                SelectSeq2(Flatten(returned),
                           {p \in Range(Flatten(returned)) : p.title \notin TitlesOf(snapshot)}))
    /\ found_suitable_product =>
        /\ probes # <<>>
        /\ Last(probes) = <<Get(product_row), Some(0)>>
        /\ \A i \in 1..(Len(probes) - 1) : probes[i][2] # Some(0)
        /\ Get(product_row) \in Range(Last(returned))
        /\ Len(queries) = Len(returned)
    /\ full_downloads # <<>> =>
        /\ found_suitable_product
        /\ full_downloads = <<Get(product_row)>>

(* C6 witness: a full download of a candidate accepted after a rejection. *)
C6_Witness ==
    /\ full_downloads # <<>>
    /\ Len(probes) >= 2
    /\ pc = "postprocess"

(* C7 (as claimed): the 'no suitable product' outcome reaches the caller as *)
(* an exception carrying "No suitable product found", with no full-band     *)
(* download attempted.                                                      *)
C7_NoSuitableProductRaised ==
    Exhausted =>
        /\ IsExceptionWith(Get(raised), "No suitable product found")
        /\ full_downloads = <<>>

(* C8 (as claimed): a failed full download reaches the caller as an         *)
(* exception carrying "Failed Sentinel-2 image download", with no other     *)
(* candidate tried.                                                         *)
C8_DownloadFailedRaised ==
    DownloadFailed =>
        /\ IsExceptionWith(Get(raised), "Failed Sentinel-2 image download")
        /\ full_downloads = <<Get(product_row)>>

(* C9 (as claimed): a failed catalog query never ends the call; the search  *)
(* goes on with the next window.                                            *)
C9_CatalogFailureDoesNotAbort ==
    pc = "raised" => Get(raised) # Error("Exception", "catalog unavailable")

(* C10 (as claimed): a failed metadata probe (result None) never ends the   *)
(* call, whether or not the product folder exists.                          *)
C10_ProbeFailureDoesNotAbort ==
    (probes # <<>> /\ Last(probes)[2] = None) =>
        ~(pc = "raised" /\ Get(raised).exc = "FileNotFoundError")

----------------------------------------------------------------------------
(* Properties of sentinelsat_retry_download.                               *)

CallsOf(name) == SelectSeq(events, LAMBDA e : e.call = name)
Delays == [i \in 1..Len(CallsOf("sleep")) |-> CallsOf("sleep")[i].t]
RetryEntries == SelectSeq(CallsOf("logger.error"), LAMBDA e : e.text = RetryMsg)
RECURSIVE Sum(_)
Sum(s) == IF s = <<>> THEN 0 ELSE Head(s) + Sum(Tail(s))
RECURSIVE Pow2(_)
Pow2(n) == IF n = 0 THEN 1 ELSE 2 * Pow2(n - 1)

(* C11: a call always returns (no exception leaves it), makes at most 9    *)
(* calls of the transfer, and returns None when all 9 of them failed.      *)
C11_RetryNeverRaisesAtMostNine ==
    retry_pc # "called" =>
        /\ retry_pc = "returned"
        /\ retry_raised = None
        /\ Len(CallsOf("api.download")) <= 9
        /\ Len(CallsOf("api.download")) = Min(transfer_fails + 1, 9)
        /\ transfer_fails >= 9 =>
               /\ product_info = None
               /\ Len(CallsOf("api.download")) = 9
        /\ Last(events).call # "api.download" => product_info = None

C11_Witness ==
    /\ retry_pc = "returned"
    /\ transfer_fails > 9
    /\ product_info = None
    /\ Len(CallsOf("api.download")) = 9

(* C12: after k < 9 failures followed by a success the call returns the    *)
(* transfer's result; the sleep after the i-th failure lasts 2^i seconds,  *)
(* so the total is 2 + 4 + ... + 2^k.                                      *)
C12_ExponentialBackOff ==
    (retry_pc = "returned" /\ transfer_fails < 9) =>
        /\ product_info = Some(ApiDownload(Get(uuid), Get(nodefilter)))
        /\ Delays = [i \in 1..transfer_fails |-> Pow2(i)]
        /\ Sum(Delays) = Pow2(transfer_fails + 1) - 2

C12_Witness ==
    /\ retry_pc = "returned"
    /\ transfer_fails = 8
    /\ product_info # None
    /\ Sum(Delays) = 510

C14_FirstAttemptIsDirectCall ==
    (retry_pc = "returned" /\ transfer_fails = 0) =>
        /\ events = << Call("api.download", "", 0, 0) >>
        /\ product_info = Some(ApiDownload(Get(uuid), Get(nodefilter)))
        /\ Sum(Delays) = 0

C14_Witness ==
    /\ retry_pc = "returned"
    /\ transfer_fails = 0
    /\ product_info # None
    /\ Len(events) = 1

----------------------------------------------------------------------------
(* Properties of get_window.                                               *)

row_start == Get(window)[1]
row_stop == Get(window)[2]
col_start == Get(window)[3]
col_stop == Get(window)[4]
center_row == Get(window_center)[1]
center_col == Get(window_center)[2]

(* C15: when the window is no larger than the image, the returned window   *)
(* lies inside the image and has exactly the requested width and height,   *)
(* for every center and for odd and even sizes.                            *)
C15_WindowInsideWithRequestedSize ==
    (window_pc = "returned" /\ window_width <= image_width
                            /\ window_height <= image_height) =>
        /\ 0 <= row_start /\ row_start < row_stop /\ row_stop <= image_height
        /\ 0 <= col_start /\ col_start < col_stop /\ col_stop <= image_width
        /\ row_stop - row_start = window_height
        /\ col_stop - col_start = window_width

(* What C16 says of one axis: centered when that fits; moved to start at 0 *)
(* when it would start below 0; moved to end at the image dimension when   *)
(* it would end past it (also after the first move).                       *)
AxisAsDescribed(center, length, size, start, stop) ==
    LET half == length \div 2
    IN  /\ stop - start = 2 * half
        /\ (center - half >= 0 /\ center + half <= size) =>
               (start = center - half /\ stop = center + half)
        /\ (center - half < 0 /\ 2 * half <= size) => (start = 0 /\ stop = 2 * half)
        /\ (center - half < 0 /\ 2 * half > size) => stop = size
        /\ (center - half >= 0 /\ center + half > size) => stop = size

C17_OversizeWindowSaturates ==
    window_pc = "returned" =>
        /\ window_height > image_height => (row_start = 0 /\ row_stop = image_height)
        /\ window_width > image_width => (col_start = 0 /\ col_stop = image_width)

----------------------------------------------------------------------------
(* Properties of postprocess_tci_image.                                    *)

scene == Get(in_dataset)
PostDone == post_pc \in {"returned", "raised"}
IsEmptyGeometry(geom) ==
    geom.coords = <<>> /\ \A j \in 1..Len(geom.geoms) : geom.geoms[j] = <<>>
NoLineIntersects == \A i \in 1..Len(intersection) : IsEmptyGeometry(intersection[i])
CrossesCoastline ==
    \E i \in 1..Len(intersection) :
        /\ intersection[i].type \in {"LineString", "MultiLineString"}
        /\ ~IsEmptyGeometry(intersection[i])
VertexCount == Len(Flatten(Flatten([i \in 1..Len(intersection) |-> LinesOf(intersection[i])])))
AllNodata ==
    /\ scene.split > 0 => scene.upper = <<0, 0, 0>>
    /\ scene.split < scene.height => scene.lower = <<0, 0, 0>>

(* C18: every window read lies inside the pixel grid of the scene that was *)
(* opened, [0, height) x [0, width), and has the fixed subset size, for    *)
(* scenes of any dimensions.                                               *)
C18_WindowsInsideOpenedScene ==
    \A i \in 1..Len(reads) :
        /\ 0 <= reads[i][1] /\ reads[i][1] < reads[i][2] /\ reads[i][2] <= scene.height
        /\ 0 <= reads[i][3] /\ reads[i][3] < reads[i][4] /\ reads[i][4] <= scene.width
        /\ reads[i][2] - reads[i][1] = 1000
        /\ reads[i][4] - reads[i][3] = 1000

(* C19: when the footprint meets no line of the coastline file, the call   *)
(* raises an exception with the message "No intersection with coastline    *)
(* found", reads no window and writes no output file.                      *)
C19_NoIntersectionRaises ==
    (post_pc # "called" /\ NoLineIntersects) =>
        /\ post_pc = "raised"
        /\ post_raised # None
        /\ Get(post_raised).exc = "Exception"
        /\ Get(post_raised).msg = Some("No intersection with coastline found")
        /\ reads = <<>>
        /\ output_dataset = None
        /\ post_result = None

C19_Witness ==
    /\ post_pc = "raised"
    /\ NoLineIntersects
    /\ Len(intersection) > 0

(* C20, as stated: a scene of nodata only that crosses the coastline makes *)
(* its 100 candidate attempts and then returns (None, None).               *)
C20_Original_HundredAttempts ==
    (PostDone /\ AllNodata /\ CrossesCoastline) =>
        /\ post_result = Some(<<None, None>>)
        /\ Len(reads) = 100

(* C20, amended: a scene of nodata only that crosses the coastline tries   *)
(* every candidate of its pool, min(100, number of coastline vertices in   *)
(* the footprint) of them, and then returns (None, None) without raising   *)
(* and without writing an output file.                                     *)
C20_NodataSceneExhaustsCandidates ==
    (post_pc # "idle" /\ AllNodata /\ CrossesCoastline) =>
        /\ post_raised = None
        /\ output_dataset = None
        /\ Len(reads) = tried
        /\ PostDone =>
               /\ post_pc = "returned"
               /\ post_result = Some(<<None, None>>)
               /\ tried = Len(coastline_points)
               /\ Len(reads) = Min(100, VertexCount)

C20_Witness ==
    /\ post_pc = "returned"
    /\ AllNodata
    /\ VertexCount > 100
    /\ Len(reads) = 100
    /\ post_result = Some(<<None, None>>)

NoNodata ==
    /\ scene.split > 0 => \E b \in 1..3 : scene.upper[b] # 0
    /\ scene.split < scene.height => \E b \in 1..3 : scene.lower[b] # 0
AllVertices == Flatten(Flatten([i \in 1..Len(intersection) |-> LinesOf(intersection[i])]))
Occurrences(s, x) == Cardinality({i \in 1..Len(s) : s[i] = x})
Candidates == [i \in 1..Len(reads) |-> coastline_points[i]]

(* C21: for a scene without any nodata pixel whose footprint crosses the   *)
(* coastline, the call returns the output path (the input's stem followed  *)
(* by "_postprocessed.png", in the input's folder) and a center (lon, lat) *)
(* inside the geographic bounding box of the scene, and the first          *)
(* candidate tried is the one accepted.                                    *)
C21_DataSceneAcceptsFirstCandidate ==
    (PostDone /\ NoNodata /\ CrossesCoastline) =>
        /\ post_pc = "returned"
        /\ Len(reads) = 1
        /\ post_result # None
        /\ Get(post_result)[1] =
               Some([parent |-> "tmp/fake/path", name |-> <<"input", "_postprocessed.png">>])
        /\ output_dataset # None
        /\ Get(post_result)[2] # None
        /\ LET center == Get(Get(post_result)[2])
           IN  /\ scene.left <= center[1] * ProjectionScale
               /\ center[1] * ProjectionScale <= scene.left + scene.width * scene.res
               /\ scene.top - scene.height * scene.res <= center[2] * ProjectionScale
               /\ center[2] * ProjectionScale <= scene.top
               /\ center = <<coastline_points[1].x, coastline_points[1].y>>

C21_Witness ==
    /\ post_pc = "returned"
    /\ NoNodata
    /\ Len(reads) = 1
    /\ output_dataset # None
    /\ Get(post_result)[1] # None

----------------------------------------------------------------------------
(* Claims on the posting stages of s2coastalbot_main.                      *)

PostingPositions == {"mastodon_auth", "toot", "twitter_auth", "tweet", "update"}
PostingCalls == {"mastodon_auth", "toot", "twitter_auth", "tweet"}

(* The steps recorded under one name.                                      *)
StepsOf(name) == SelectSeq(steps, LAMBDA st : st.call = name)

(* C22: main is at a posting stage only with a subset path; every posting  *)
(* call made is for the scene of that path, so a scene whose postprocessing *)
(* gave no subset (sentinel or raised) has nothing posted; after such a    *)
(* pass main is back where it calls download_tci_image, and the scene that  *)
(* call hands to postprocessing differs from every earlier one.             *)
C22_PostingOnlyWithSubset ==
    /\ pc \in PostingPositions => postprocessed_file_path # None
    /\ \A i \in 1..Len(steps) :
          steps[i].call \in PostingCalls =>
              /\ postprocessed_file_path # None
              /\ steps[i].product = Get(postprocessed_file_path).product
    /\ pc = "main" =>
          /\ postprocessed_file_path = None
          /\ \A i \in 1..Len(steps) : steps[i].call \notin PostingCalls
    /\ pc = "postprocess" =>
          /\ Stem(tci_file_path) = appended[Len(appended)]
          /\ \A i \in 1..(Len(appended) - 1) : appended[i] # Stem(tci_file_path)

(* C22 witness: the first scene gave no subset, the loop downloaded a      *)
(* second scene and that one was tooted.                                   *)
C22_Witness ==
    /\ n_calls = 2
    /\ Len(appended) = 2
    /\ StepsOf("toot") # <<>>
    /\ StepsOf("toot")[1].product # (CHOOSE q \in Products : q.title = appended[1]).filename

StageOrder == << "mastodon_auth", "toot", "twitter_auth", "tweet" >>
StageMsgs == << MastodonAuthMsg, TootMsg, TwitterAuthMsg, TweetMsg >>

(* The posting stage whose except branch ran, 0 when none did.             *)
FailedStage ==
    IF \E k \in 1..4 : StageMsgs[k] \in Range(errors)
    THEN CHOOSE k \in 1..4 : StageMsgs[k] \in Range(errors)
    ELSE 0

(* The calls of clean_data_based_on_tci_file on the scene being posted.    *)
CleanCalls ==
    SelectSeq(steps, LAMBDA st : st.call = "clean"
                                 /\ st.product = Get(tci_file_path).product)

(* C23 (as claimed): once a posting stage has raised, its error is logged,  *)
(* clean_data_based_on_tci_file was called once if cleaning is enabled and  *)
(* never otherwise, no later stage was attempted, posted_images.csv is as   *)
(* it was and main has returned.                                            *)
C23_PostingFailureCleansOnceAndReturns ==
    FailedStage # 0 =>
        /\ errors[Len(errors)] = StageMsgs[FailedStage]
        /\ Len(CleanCalls) = (IF GetBoolean(cleaning) THEN 1 ELSE 0)
        /\ \A k \in FailedStage..4 : StepsOf(StageOrder[k]) = <<>>
        /\ StepsOf("to_csv") = <<>>
        /\ posted_images_file \in InitPostedImages
        /\ pc = "done"
        /\ raised = None

(* C24 (as claimed): whenever posted_images.csv has been written, both     *)
(* posts had succeeded; and once both have succeeded and main has left the  *)
(* tweet stage, the file is what it was plus one row {now, product folder}. *)
C24_OneRowAfterBothPosts ==
    /\ (posted_images_file \notin InitPostedImages \/ StepsOf("to_csv") # <<>>) =>
           StepsOf("toot") # <<>> /\ StepsOf("tweet") # <<>>
    /\ (StepsOf("toot") # <<>> /\ StepsOf("tweet") # <<>> /\ pc # "update") =>
           /\ Len(StepsOf("to_csv")) = 1
           /\ \E before \in InitPostedImages :
                  posted_images_file =
                      Some(Append(ReadLedger(before),
                                  [date |-> clock, product |-> Stem(tci_file_path)]))
           /\ \A i, j \in 1..Len(steps) :
                  (steps[i].call = "tweet" /\ steps[j].call = "to_csv") => i < j
           /\ \A i, j \in 1..Len(steps) :
                  (steps[i].call = "to_csv" /\ steps[j] = Step("clean", tci_file_path)) => i < j

----------------------------------------------------------------------------
(* Claims on cdse.search_nodes and cdse.odata_download_with_nodefilter.    *)

(* The file nodes and the directory urls of the tree under a url.          *)
RECURSIVE FilesUnder(_, _)
FilesUnder(tree, node_url) ==
    UNION { IF n.ContentLength = 0 THEN FilesUnder(tree, n.uri) ELSE {n} :
            n \in Range(tree[node_url]) }

RECURSIVE DirsUnder(_, _)
DirsUnder(tree, node_url) ==
    UNION { IF n.ContentLength = 0 THEN {n.uri} \cup DirsUnder(tree, n.uri) ELSE {} :
            n \in Range(tree[node_url]) }

root_url == ProductUrl(Get(feature_id))
Searched == cdse_pc \in {"for", "returned"}

(* C25 (as claimed): search_nodes returns exactly the file nodes, at any   *)
(* depth, whose Name matches the pattern when exclude is False, and        *)
(* exactly those whose Name does not match when exclude is True.           *)
C25_ExactlyMatchingOrExactlyNot ==
    Searched =>
        Range(nodes) =
            { n \in FilesUnder(listings, root_url) :
                  fnmatch(n.Name, Get(nodefilter_pattern)) = ~exclude }

Requested ==
    [i \in 1..Len(session_gets) |-> [node |-> nodes[i], status_code |-> session_gets[i][2]]]
Succeeded == SelectSeq(Requested, LAMBDA rq : rq.status_code = 200)
Failed == SelectSeq(Requested, LAMBDA rq : rq.status_code # 200)

(* C27: the for loop makes one request per node returned by search_nodes,  *)
(* in order, at the node's uri with the final "Nodes" replaced by          *)
(* "$value"; the files opened are those of the nodes answered with 200,    *)
(* each written with the chunks received; every other answer is logged     *)
(* with its status code and opens no file; feature_id is returned.         *)
C27_OneRequestPerNodeFileIffOk ==
    Searched =>
        /\ Len(session_gets) + Len(node_todo) = Len(nodes)
        /\ \A i \in 1..Len(session_gets) :
               LET url == session_gets[i][1]
                   uri == nodes[i].uri
               IN  /\ Len(url) = Len(uri)
                   /\ uri[Len(uri)] = "Nodes"
                   /\ url[Len(url)] = "$value"
                   /\ \A k \in 1..(Len(uri) - 1) : url[k] = uri[k]
        /\ Len(opened) = Len(Succeeded)
        /\ \A k \in 1..Len(opened) :
               /\ opened[k][1] = Succeeded[k].node.Name
               /\ opened[k][2] # <<>>
               /\ "" \notin Range(opened[k][2])
        /\ Len(cdse_errors) = 2 * Len(Failed)
        /\ \A k \in 1..Len(Failed) :
               cdse_errors[2 * k - 1] =
                   << "Failed to download file. Status code: ", Failed[k].status_code >>
        /\ cdse_pc = "returned" => (node_todo = <<>> /\ cdse_returned = feature_id)

(* C27 witness: the function returned after one 200 and one 404.           *)
C27_Witness ==
    /\ cdse_pc = "returned"
    /\ Succeeded # <<>>
    /\ Failed # <<>>

----------------------------------------------------------------------------
(* Claims on geoutils.get_location_name and geoutils.format_lon_lat.       *)

(* The requests answered without an error, by their position.              *)
Located == {i \in 1..Len(requested) : requested[i].answer = "json with display_name"}

(* C28 (as claimed): the first request is for input_coords, every later    *)
(* one for a point on a circle around it, the circles growing; never more  *)
(* than 1000 requests are sent; the value returned is the display_name of  *)
(* the first request answered without an error if there is one, and        *)
(* 'Unknown location' only after 1000 requests answered with an error.     *)
C28_FirstLocatedPointNamed ==
    /\ Len(requested) <= RequestLimit
    /\ \A i \in 1..Len(requested) :
           IF i = 1 THEN requested[i].point.ring = 0
           ELSE /\ requested[i].point.ring > 0
                /\ requested[i].point.ring >= requested[i - 1].point.ring
                /\ requested[i].point # requested[i - 1].point
    /\ geo_pc = "returned" =>
           IF Located # {}
           THEN location_name =
                    Some(DisplayName(requested[CHOOSE i \in Located :
                                                   \A j \in Located : i <= j].point))
           ELSE /\ location_name = Some(UnknownLocation)
                /\ Len(requested) = RequestLimit

(* The tenths printed are the nearest to the hundredths given.             *)
NearestTenth(printed, hundredths) ==
    /\ printed.whole >= 0
    /\ printed.decimal \in 0..9
    /\ 10 * (10 * printed.whole + printed.decimal) - hundredths \in -4..5

(* C29: format_lon_lat((lon, lat)) is |lat| with one decimal, "°", S when   *)
(* lat < 0 and N otherwise, a space, |lon| with one decimal, "°", W when    *)
(* lon < 0 and E otherwise.                                                *)
C29_LatitudeFirstAbsoluteValues ==
    geo_pc = "formatted" =>
        LET lon == Get(input_coords)[1]
            lat == Get(input_coords)[2]
            s == Get(formatted)
        IN  /\ Len(s) = 7
            /\ NearestTenth(s[1], IF lat < 0 THEN -lat ELSE lat)
            /\ s[2] = "°"
            /\ s[3] = (IF lat < 0 THEN "S" ELSE "N")
            /\ s[4] = " "
            /\ NearestTenth(s[5], IF lon < 0 THEN -lon ELSE lon)
            /\ s[6] = "°"
            /\ s[7] = (IF lon < 0 THEN "W" ELSE "E")

(* C29 witness: a southern latitude on the meridian of longitude zero.     *)
C29_Witness ==
    /\ geo_pc = "formatted"
    /\ Get(input_coords)[1] = 0
    /\ Get(input_coords)[2] < 0
    /\ Get(formatted)[3] = "S"
    /\ Get(formatted)[7] = "E"

----------------------------------------------------------------------------
(* Further claims on postprocess_tci_image.                                *)

(* The band values of the scene at a row.                                  *)
BandsAt(row) == IF row < scene.split THEN scene.upper ELSE scene.lower

(* The window holds a pixel of the scene whose bands are all zero. The     *)
(* bands change only at one row, so the first and the last row of the      *)
(* window that are on the grid decide.                                     *)
HasNodataPixel(w) ==
    LET first == Max(w[1], 0)
        last == Min(w[2], scene.height) - 1
    IN  /\ first <= last
        /\ Max(w[3], 0) < Min(w[4], scene.width)
        /\ \/ BandsAt(first) = <<0, 0, 0>>
           \/ BandsAt(last) = <<0, 0, 0>>

(* C31: the output file is written at most once, when the call returns,    *)
(* for the first candidate in shuffled order whose window holds no pixel   *)
(* with all bands zero; every candidate read before it held such a pixel,  *)
(* none after it is read, and the center returned is its (lon, lat).       *)
C31_FirstCleanCandidateWrittenOnce ==
    post_pc # "idle" =>
        /\ \A i \in 1..(Len(reads) - 1) : HasNodataPixel(reads[i])
        /\ (reads # <<>> /\ ~HasNodataPixel(reads[Len(reads)])) =>
               /\ post_pc = "returned"
               /\ output_dataset # None
        /\ output_dataset # None =>
               /\ post_pc = "returned"
               /\ reads # <<>>
               /\ ~HasNodataPixel(reads[Len(reads)])
               /\ Get(output_dataset).window = reads[Len(reads)]
               /\ reads[Len(reads)] = SubsetWindow(scene, coastline_points[Len(reads)])
               /\ post_result =
                      Some(<< Some(Get(output_dataset).file),
                              Some(<< coastline_points[Len(reads)].x,
                                      coastline_points[Len(reads)].y >>) >>)
        /\ (post_pc = "returned" /\ output_dataset = None) =>
               /\ post_result = Some(<<None, None>>)
               /\ Len(reads) = Len(coastline_points)

(* C31 witness: candidates were rejected before one was accepted.          *)
C31_Witness ==
    /\ post_pc = "returned"
    /\ output_dataset # None
    /\ Len(reads) > 1
    /\ Len(reads) < Len(coastline_points)

----------------------------------------------------------------------------
(* Further claim on get_window.                                            *)

(* C32: for every call, windows larger than the image included, the        *)
(* extent of the window returned is 2 * floor(window_height / 2) rows and   *)
(* 2 * floor(window_width / 2) columns: the shifts neither shrink nor      *)
(* stretch it.                                                             *)
C32_ShiftsKeepExtent ==
    window_pc = "returned" =>
        /\ row_stop - row_start = 2 * (window_height \div 2)
        /\ col_stop - col_start = 2 * (window_width \div 2)

(* C32 witness: a window taller than the image around a center near the    *)
(* top, shifted both ways, and one wider than the image.                   *)
C32_Witness ==
    /\ window_pc = "returned"
    /\ window_height > image_height + 1
    /\ center_row - window_height \div 2 < 0
    /\ row_start < 0
    /\ row_stop = image_height
    /\ window_width > image_width + 1

----------------------------------------------------------------------------
(* Further claim on sentinelsat_retry_download.                            *)

(* The positions in events of the calls of one name.                       *)
PositionsOf(name) == {i \in 1..Len(events) : events[i].call = name}

(* C33: when all 9 attempts fail, None is returned after a sleep has       *)
(* followed each of the 9 failed attempts, the last one included: the      *)
(* sleeps last 2, 4, ..., 512, 1022 in all, every download attempt is      *)
(* followed by a sleep before the next attempt, and nothing but the final  *)
(* log entry comes after the last sleep.                                   *)
C33_SleepAfterEveryFailureLastIncluded ==
    (retry_pc = "returned" /\ transfer_fails >= 9) =>
        /\ product_info = None
        /\ Cardinality(PositionsOf("api.download")) = 9
        /\ Delays = << 2, 4, 8, 16, 32, 64, 128, 256, 512 >>
        /\ Sum(Delays) = 1022
        /\ \A i \in PositionsOf("api.download") :
               \E j \in PositionsOf("sleep") :
                   /\ i < j
                   /\ \A k \in PositionsOf("api.download") : ~(i < k /\ k < j)
        /\ \A i \in PositionsOf("api.download"), j \in PositionsOf("sleep") :
               (\A k \in PositionsOf("sleep") : k <= j) => i < j
        /\ Last(events) = Call("logger.error", BackOffMsg, 0, 0)
        /\ events[Len(events) - 1].call = "sleep"

(* C33 witness: nine failures, the ninth sleep of 512 made, None returned. *)
C33_Witness ==
    /\ retry_pc = "returned"
    /\ transfer_fails = 9
    /\ product_info = None
    /\ Len(Delays) = 9
    /\ Delays[9] = 512

----------------------------------------------------------------------------
(* Further claims on download_tci_image and s2coastalbot_main.             *)

(* C34 (as claimed): when the configuration sets cleaning to false, the    *)
(* folder of every candidate whose metadata was downloaded, rejected ones  *)
(* included, is still on disk.                                             *)
C34_NoDeletionWhenCleaningIsFalse ==
    ~GetBoolean(cleaning) =>
        \A i \in 1..Len(probes) :
            probes[i][2] # None => probes[i][1].filename \in folders

(* C35 (as claimed): main is at a posting stage only with the caption      *)
(* built, from the scene whose subset is posted and its acquisition date:  *)
(* the loop does not go on to posting when get_location_name or the        *)
(* construction of the caption raised.                                     *)
C35_CaptionBuiltBeforePosting ==
    pc \in PostingPositions =>
        /\ text # None
        /\ Get(text).product = Get(postprocessed_file_path).product
        /\ Get(text).date = Get(date)

(* C36 (as claimed): in one run clean_data_based_on_tci_file is called at  *)
(* most once for any scene.                                                *)
C36_CleanAtMostOncePerScene ==
    \A i, j \in 1..Len(steps) :
        (steps[i].call = "clean" /\ steps[j].call = "clean"
             /\ steps[i].product = steps[j].product) => i = j

(* C37 (as claimed): with cleaning enabled, when the run has returned no   *)
(* folder of a scene downloaded during the run is left, the scenes given   *)
(* up for want of a subset included.                                       *)
C37_EveryDownloadedSceneCleaned ==
    (pc = "done" /\ GetBoolean(cleaning)) =>
        \A i \in 1..Len(appended) :
            (CHOOSE q \in Products : q.title = appended[i]).filename \notin folders

(* The run is over: main returned, or an exception left it.                *)
Terminated == pc \in {"done", "raised", "crashed"}

(* C38: a run terminates. In download_tci_image the window counter only    *)
(* moves forward, by one per window, and the search ends in an accepted    *)
(* product or in an exit; no title is acquired twice in a run, so the loop *)
(* of main ends too, with a subset or with the error of an acquisition.    *)
C38_RunTerminates ==
    /\ [][(pc = "while" /\ pc' = "for") => count' = count + 1]_vars
    /\ [][(count' # count) => (count' = count + 1 \/ pc = "main")]_vars
    /\ [](NoDup(appended) /\ Len(appended) <= Cardinality(Products))
    /\ <>Terminated

(* C38 witness: the run ended in the exit of a third acquisition, after    *)
(* every product of the catalog had been acquired and given no subset.     *)
C38_Witness ==
    /\ Terminated
    /\ n_calls = 3
    /\ Len(appended) = Cardinality(Products)
    /\ pc = "raised"

----------------------------------------------------------------------------
(* Two runs of download_tci_image sharing the file downloaded_images.csv.  *)
(* A run reads the file once (sentinel2.py 178-187), searches, and on      *)
(* success writes its whole data frame back (259-264); nothing locks the   *)
(* file between the two.                                                   *)

(* What the file would hold if the writer merged its row into the current  *)
(* content instead of replacing it.                                        *)
to_csv_merged(file, df) == Some(Append(ReadLedger(file), df[Len(df)]))

(* sentinel2.py 264: DataFrame.to_csv replaces the content of the file,    *)
(* whatever it held, by the rows of the data frame.                        *)
to_csv(file, df) == Some(df)

InitialLedgers ==
    {None, Some(<<>>)} \cup {Some(<< [date |-> 0, product |-> t] >>) : t \in Titles}

RunsInit ==
    /\ run_pc = [r \in Runs |-> "start"]
    /\ run_images = [r \in Runs |-> <<>>]
    /\ run_title = [r \in Runs |-> None]
    /\ shared_ledger \in InitialLedgers
    /\ run_clock = 1
    /\ run_downloads = <<>>
    /\ run_writes = <<>>
    /\ MainIdle
    /\ RetryIdle
    /\ WindowIdle
    /\ PostIdle
    /\ CdseIdle
    /\ GeoIdle

(* sentinel2.py 178-187: the run reads the ledger, or starts an empty one. *)
RunReadLedger(r) ==
    /\ run_pc[r] = "start"
    /\ run_images' = [run_images EXCEPT ![r] = ReadLedger(shared_ledger)]
    /\ run_pc' = [run_pc EXCEPT ![r] = "search"]
    /\ UNCHANGED <<run_title, shared_ledger, run_clock, run_downloads, run_writes>>
    /\ UNCHANGED <<main_vars, retry_vars, window_vars, post_vars, cdse_vars, geo_vars>>

(* sentinel2.py 199-241: the search accepts and downloads a product whose  *)
(* title is not in the run's own data frame.                               *)
RunAccept(r) ==
    /\ run_pc[r] = "search"
    /\ \E p \in Products :
        /\ IsNovel(p, run_images[r])
        /\ run_title' = [run_title EXCEPT ![r] = Some(p.title)]
        /\ run_downloads' = Append(run_downloads, [run |-> r, title |-> p.title])
    /\ run_pc' = [run_pc EXCEPT ![r] = "accepted"]
    /\ UNCHANGED <<run_images, shared_ledger, run_clock, run_writes>>
    /\ UNCHANGED <<main_vars, retry_vars, window_vars, post_vars, cdse_vars, geo_vars>>

(* sentinel2.py 243-245 and 253-255: no suitable product, sys.exit(128);   *)
(* the ledger file is not written.                                         *)
RunExit(r) ==
    /\ run_pc[r] = "search"
    /\ run_pc' = [run_pc EXCEPT ![r] = "exited"]
    /\ UNCHANGED <<run_images, run_title, shared_ledger, run_clock, run_downloads,
                   run_writes>>
    /\ UNCHANGED <<main_vars, retry_vars, window_vars, post_vars, cdse_vars, geo_vars>>

(* sentinel2.py 259-264: the run appends its row to its own data frame and *)
(* writes the data frame over the file.                                    *)
RunUpdateLedger(r) ==
    /\ run_pc[r] = "accepted"
    /\ LET df == AppendRow(run_images[r], run_clock, Get(run_title[r]))
       IN /\ run_images' = [run_images EXCEPT ![r] = df]
          /\ shared_ledger' = to_csv(shared_ledger, df)
          /\ run_writes' = Append(run_writes,
                                  [run |-> r, read |-> run_images[r],
                                   before |-> ReadLedger(shared_ledger),
                                   after |-> ReadLedger(shared_ledger'),
                                   row |-> df[Len(df)]])
    /\ run_clock' = run_clock + 1
    /\ run_pc' = [run_pc EXCEPT ![r] = "returned"]
    /\ UNCHANGED <<run_title, run_downloads>>
    /\ UNCHANGED <<main_vars, retry_vars, window_vars, post_vars, cdse_vars, geo_vars>>

RunsNext ==
    \/ \E r \in Runs : RunReadLedger(r)
    \/ \E r \in Runs : RunAccept(r)
    \/ \E r \in Runs : RunExit(r)
    \/ \E r \in Runs : RunUpdateLedger(r)

SpecRuns == RunsInit /\ [][RunsNext]_vars

(* C39: the ledger is read once at the start of a run and the whole file   *)
(* is rewritten on success, with no guard: the title a run accepts is new  *)
(* to the run's own reading only, every write leaves in the file exactly   *)
(* the writer's reading plus its own row whatever the file held just       *)
(* before, and the file is what the last writer wrote.                     *)
C39_LedgerReadOnceRewrittenWhole ==
    /\ \A r \in Runs : run_pc[r] = "accepted" =>
           Get(run_title[r]) \notin TitlesOf(run_images[r])
    /\ \A i \in 1..Len(run_writes) :
           LET w == run_writes[i]
           IN /\ w.after = Append(w.read, w.row)
              /\ w.after = run_images[w.run]
    /\ run_writes # <<>> => shared_ledger = Some(run_writes[Len(run_writes)].after)

(* C39 witness: both runs accepted and downloaded the same title, both     *)
(* wrote, and the row the first writer appended is no longer in the file.  *)
C39_Witness ==
    /\ Len(run_downloads) = 2
    /\ run_downloads[1].run # run_downloads[2].run
    /\ run_downloads[1].title = run_downloads[2].title
    /\ Len(run_writes) = 2
    /\ run_writes[1].row \in Range(run_writes[1].after)
    /\ run_writes[1].row \notin Range(ReadLedger(shared_ledger))

(* The row of one run is lost also when the two runs accepted different    *)
(* titles: the later writer's older reading replaces the file.             *)
LostRowOfAnotherTitle ==
    /\ Len(run_writes) = 2
    /\ run_writes[1].row.product # run_writes[2].row.product
    /\ run_writes[1].row \notin Range(ReadLedger(shared_ledger))

====
